---- MODULE Spec2Model ----
(***************************************************************************)
(* Model of the skinDB-ai ingestion pipeline (src/app/ingestion):          *)
(*   - db.py            the transactional, idempotent store                *)
(*   - parallel_llama.py the fan-out / fan-in aggregate                    *)
(*   - main.py          the ingestion endpoints (validate, rewrite, store) *)
(*   - models.py        the RootSnapshot schema                            *)
(* Python's Optional[x] is modelled as a sequence: <<>> is None and <<v>>  *)
(* is the value v.  Floats are modelled as integers.  The timestamp        *)
(* columns scraped_at / updated_at (NOW()) are not part of the rows.       *)
(***************************************************************************)
EXTENDS Integers, Sequences, FiniteSets, TLC

(***************************************************************************)
(* Bounds                                                                  *)
(***************************************************************************)
\* Last UTC day the clock of the store specification reaches.
MaxDay == 1
\* Number of store_snapshot calls in one behaviour of the store specification.
MaxStores == 2

(***************************************************************************)
(* Python values                                                           *)
(***************************************************************************)
None == <<>>
Some(v) == <<v>>
\* Python truthiness of an Optional[List]: None and [] are both falsy.
Truthy(optList) == optList # None /\ optList[1] # <<>>

Max2(a, b) == IF a >= b THEN a ELSE b
Min2(a, b) == IF a <= b THEN a ELSE b

\* s[:n]
Take(s, n) == SubSeq(s, 1, Min2(n, Len(s)))

(***************************************************************************)
(* db.py helpers                                                           *)
(***************************************************************************)
\* The value is passed on as it is.
clamp_float_unclamped(x, lo, hi) == x

\* clamp_float(x, lo, hi) on an Optional number.
clamp_float(x, lo, hi) ==
    IF x = None THEN None ELSE Some(Max2(lo, Min2(hi, x[1])))

\* platform_data.reviews[:5]
ReviewCap == 5

(***************************************************************************)
(* Tables.  A table with a UNIQUE key is a set of rows; reviews has only a *)
(* serial id and is the sequence of its rows in insertion order.           *)
(***************************************************************************)
EmptyTables ==
    [offers |-> {}, price_history |-> {}, ratings |-> {},
     reviews |-> <<>>, specs |-> {}, summaries |-> {}]

\* The columns of the UNIQUE constraints named by the ON CONFLICT clauses.
RetailerKey == {"product_id", "retailer"}
DayKey == {"product_id", "retailer", "day"}
SpecKey == {"product_id", "key", "source"}
ProductKey == {"product_id"}

SameKey(a, b, key) == \A f \in key : a[f] = b[f]

\* A plain INSERT in place of the upsert.
UpsertWithoutConflictClause(table, row, key) == table \cup {row}

\* INSERT ... ON CONFLICT (key) DO UPDATE SET <all value columns>
Upsert(table, row, key) ==
    {r \in table : ~SameKey(r, row, key)} \cup {row}

\* The day's row is overwritten instead of kept.
InsertDoNothingOverwrites(table, row, key) ==
    {r \in table : ~SameKey(r, row, key)} \cup {row}

\* INSERT ... ON CONFLICT (key) DO NOTHING
InsertDoNothing(table, row, key) ==
    IF \E r \in table : SameKey(r, row, key) THEN table ELSE table \cup {row}

(***************************************************************************)
(* db.py: the statements one store_snapshot call issues on its cursor      *)
(***************************************************************************)
\* store_platform_data: offers upsert, price_history insert, ratings upsert,
\* reviews delete + bulk insert, each under the guard the code has.
store_platform_data(product_id, platform, platform_data, today) ==
    LET price == platform_data.price
        rating == platform_data.rating
        offerStmts ==
            IF price # None
            THEN << [op |-> "offers_upsert",
                     row |-> [product_id |-> product_id, retailer |-> platform,
                              price_amount |-> price[1].amount]] >>
                 \o (IF price[1].amount # None
                     THEN << [op |-> "price_history_insert",
                              row |-> [product_id |-> product_id, retailer |-> platform,
                                       day |-> today,
                                       price_amount |-> price[1].amount]] >>
                     ELSE << >>)
            ELSE << >>
        ratingStmts ==
            IF rating # None
            THEN << [op |-> "ratings_upsert",
                     row |-> [product_id |-> product_id, retailer |-> platform,
                              average |-> clamp_float(rating[1].average, 0, 5)]] >>
            ELSE << >>
        reviewStmts ==
            IF Truthy(platform_data.reviews)
            THEN LET reviews_data == Take(platform_data.reviews[1], ReviewCap)
                 IN  << [op |-> "reviews_delete",
                         row |-> [product_id |-> product_id, retailer |-> platform]] >>
                     \o (IF reviews_data # << >>
                         THEN << [op |-> "reviews_insert",
                                  row |-> [product_id |-> product_id,
                                           retailer |-> platform,
                                           bodies |-> reviews_data]] >>
                         ELSE << >>)
            ELSE << >>
    IN  offerStmts \o ratingStmts \o reviewStmts

\* quote.outlet.lower().replace(' ', '_') on the outlet names of the model.
OutletKey(outlet) ==
    CASE outlet = "Allure" -> "allure"
      [] outlet = "allure" -> "allure"
      [] outlet = "Vogue UK" -> "vogue_uk"
      [] OTHER -> outlet

\* store_editorial_data: one specs upsert per quote, keyed by the outlet.
RECURSIVE store_editorial_data(_, _)
store_editorial_data(product_id, quotes) ==
    IF quotes = << >> THEN << >>
    ELSE << [op |-> "specs_upsert",
             row |-> [product_id |-> product_id,
                      key |-> <<"editorial_quote", OutletKey(Head(quotes).outlet)>>,
                      source |-> "editorial",
                      value |-> Head(quotes).quote]] >>
         \o store_editorial_data(product_id, Tail(quotes))

\* The spec_mappings keys of store_specifications that the model carries.
SpecFields == <<"size", "form">>

\* store_specifications: one specs upsert per non-None field.  No
\* Specifications object has a '<source>_source' attribute, so best_source
\* is always 'aggregated'.
RECURSIVE store_specifications(_, _, _)
store_specifications(product_id, specifications, fields) ==
    IF fields = << >> THEN << >>
    ELSE (IF specifications[Head(fields)] # None
          THEN << [op |-> "specs_upsert",
                   row |-> [product_id |-> product_id,
                            key |-> <<"spec", Head(fields)>>,
                            source |-> "aggregated",
                            value |-> specifications[Head(fields)][1]]] >>
          ELSE << >>)
         \o store_specifications(product_id, specifications, Tail(fields))

\* store_summary: the summaries upsert; citations is always the empty map.
store_summary(product_id, summary, model_name, prompt_hash) ==
    << [op |-> "summaries_upsert",
        row |-> [product_id |-> product_id,
                 pros |-> IF summary.pros # << >> THEN Some(summary.pros) ELSE None,
                 cons |-> IF summary.cons # << >> THEN Some(summary.cons) ELSE None,
                 verdict |-> summary.verdict,
                 citations |-> {},
                 model_name |-> model_name,
                 prompt_hash |-> prompt_hash]] >>

\* Iteration order of snap.platforms.items().
PlatformOrder ==
    <<"amazon", "sephora", "ulta", "walmart", "nordstrom", "brand_site",
      "editorial", "youtube", "instagram">>

\* The loop of store_snapshot over snap.platforms with its isinstance guards.
RECURSIVE StorePlatforms(_, _, _, _)
StorePlatforms(product_id, platforms, order, today) ==
    IF order = << >> THEN << >>
    ELSE LET platform_name == Head(order)
             here ==
                 IF platform_name \notin DOMAIN platforms THEN << >>
                 ELSE LET platform_data == platforms[platform_name]
                      IN  IF platform_name = "editorial"
                          THEN IF platform_data.kind = "EditorialBlock"
                               THEN store_editorial_data(product_id, platform_data.quotes)
                               ELSE << >>
                          ELSE IF platform_data.kind = "PlatformData"
                               THEN store_platform_data(product_id, platform_name,
                                                        platform_data, today)
                               ELSE << >>
         IN  here \o StorePlatforms(product_id, platforms, Tail(order), today)

\* The summaries upsert carries the citations of the snapshot.
statements_with_citations(product_id, snap, model_name, prompt_hash, today) ==
    StorePlatforms(product_id, snap.platforms, PlatformOrder, today)
    \o store_specifications(product_id, snap.specifications, SpecFields)
    \o << [store_summary(product_id, snap.summarized_review, model_name,
                         prompt_hash)[1]
              EXCEPT !.row.citations = snap.citations] >>

\* Every cursor.execute of one store_snapshot call, in program order.
Statements(product_id, snap, model_name, prompt_hash, today) ==
    StorePlatforms(product_id, snap.platforms, PlatformOrder, today)
    \o store_specifications(product_id, snap.specifications, SpecFields)
    \o store_summary(product_id, snap.summarized_review, model_name, prompt_hash)

\* The upserts of offers, ratings and summaries keep the row that is there.
execute_first_write_wins(t, st) ==
    CASE st.op = "offers_upsert" ->
           [t EXCEPT !.offers = InsertDoNothing(t.offers, st.row, RetailerKey)]
      [] st.op = "price_history_insert" ->
           [t EXCEPT !.price_history = InsertDoNothing(t.price_history, st.row, DayKey)]
      [] st.op = "ratings_upsert" ->
           [t EXCEPT !.ratings = InsertDoNothing(t.ratings, st.row, RetailerKey)]
      [] st.op = "reviews_delete" ->
           [t EXCEPT !.reviews = SelectSeq(t.reviews, LAMBDA r : ~SameKey(r, st.row, RetailerKey))]
      [] st.op = "reviews_insert" ->
           [t EXCEPT !.reviews =
               t.reviews \o [i \in 1..Len(st.row.bodies) |->
                               [product_id |-> st.row.product_id,
                                retailer |-> st.row.retailer,
                                body |-> st.row.bodies[i]]]]
      [] st.op = "specs_upsert" ->
           [t EXCEPT !.specs = Upsert(t.specs, st.row, SpecKey)]
      [] st.op = "summaries_upsert" ->
           [t EXCEPT !.summaries = InsertDoNothing(t.summaries, st.row, ProductKey)]

\* The effect of one statement on the tables seen by the transaction.
Execute(t, st) ==
    CASE st.op = "offers_upsert" ->
           [t EXCEPT !.offers = Upsert(t.offers, st.row, RetailerKey)]
      [] st.op = "price_history_insert" ->
           [t EXCEPT !.price_history = InsertDoNothing(t.price_history, st.row, DayKey)]
      [] st.op = "ratings_upsert" ->
           [t EXCEPT !.ratings = Upsert(t.ratings, st.row, RetailerKey)]
      [] st.op = "reviews_delete" ->
           [t EXCEPT !.reviews = SelectSeq(t.reviews, LAMBDA r : ~SameKey(r, st.row, RetailerKey))]
      [] st.op = "reviews_insert" ->
           [t EXCEPT !.reviews =
               t.reviews \o [i \in 1..Len(st.row.bodies) |->
                               [product_id |-> st.row.product_id,
                                retailer |-> st.row.retailer,
                                body |-> st.row.bodies[i]]]]
      [] st.op = "specs_upsert" ->
           [t EXCEPT !.specs = Upsert(t.specs, st.row, SpecKey)]
      [] st.op = "summaries_upsert" ->
           [t EXCEPT !.summaries = Upsert(t.summaries, st.row, ProductKey)]

\* The tables after the first n statements.
RECURSIVE ExecutePrefix(_, _, _)
ExecutePrefix(t, stmts, n) ==
    IF n = 0 THEN t
    ELSE Execute(ExecutePrefix(t, stmts, n - 1), stmts[n])

\* The statements that ran before the failure stay written.
RollbackKeepsWrites(committed, working) == working

\* conn.rollback(): the committed tables are what they were before the call.
Rollback(committed, working) == committed

\* store_snapshot.  failAt = None: nothing raises.  failAt = Some(0):
\* get_db_connection raises.  failAt = Some(k), 1 <= k <= Len(stmts): the
\* k-th statement raises after the first k-1 were executed.
\* failAt = Some(Len(stmts) + 1): conn.commit raises.
store_snapshot(t, product_id, snap, model_name, prompt_hash, today, failAt) ==
    LET stmts == Statements(product_id, snap, model_name, prompt_hash, today)
    IN  IF failAt = None
        THEN [ok |-> TRUE, tables |-> ExecutePrefix(t, stmts, Len(stmts))]
        ELSE IF failAt[1] = 0
        THEN [ok |-> FALSE, tables |-> t]
        ELSE [ok |-> FALSE,
              tables |-> Rollback(t, ExecutePrefix(t, stmts,
                                                   Min2(failAt[1] - 1, Len(stmts))))]

FailPoints(product_id, snap, model_name, prompt_hash, today) ==
    {None} \cup {Some(k) : k \in
        0..(Len(Statements(product_id, snap, model_name, prompt_hash, today)) + 1)}

(***************************************************************************)
(* Inputs of the store specification                                       *)
(***************************************************************************)
Products == {"p1", "p2"}

PlatformData(price, rating, reviews) ==
    [kind |-> "PlatformData", price |-> price, rating |-> rating,
     reviews |-> reviews, quotes |-> << >>]

\* A platform value that validation left as a plain dict.
PlainDict ==
    [kind |-> "dict", price |-> None, rating |-> None, reviews |-> None,
     quotes |-> << >>]

EditorialBlock(quotes) ==
    [kind |-> "EditorialBlock", price |-> None, rating |-> None,
     reviews |-> None, quotes |-> quotes]

\* The amazon entries: every price with every review list; the entry has a
\* rating exactly when it has a price amount.
AmazonVals ==
    {PlatformData(p, IF p # None /\ p[1].amount # None
                     THEN Some([average |-> Some(3)]) ELSE None, r) :
        p \in {None, Some([amount |-> None]), Some([amount |-> Some(10)]),
               Some([amount |-> Some(20)])},
        r \in {None, Some(<< >>), Some(<<"r1">>),
               Some(<<"r2", "r3", "r4", "r5", "r6", "r7">>)}}
    \cup {PlainDict}

SummaryA ==
    [pros |-> <<"a1", "a2", "a3">>, cons |-> <<"b1", "b2", "b3">>, verdict |-> "va"]

SummaryB ==
    [pros |-> <<"c1", "c2", "c3">>, cons |-> <<"d1", "d2", "d3">>, verdict |-> "vb"]

\* The snapshots handed to store_snapshot: an amazon entry alone with the
\* first summary, or with a sephora entry, an editorial block, a size and
\* the second summary.
StoreSnapshots ==
    {[platforms |-> [n \in {"amazon"} |-> a],
      specifications |-> [size |-> None, form |-> None],
      summarized_review |-> SummaryA,
      citations |-> {<<"Amazon", "u1">>}] : a \in AmazonVals}
    \cup
    {[platforms |-> [n \in {"amazon", "sephora", "editorial"} |->
                       CASE n = "amazon" -> a
                         [] n = "sephora" ->
                              PlatformData(Some([amount |-> Some(10)]),
                                           Some([average |-> Some(7)]),
                                           Some(<<"s1">>))
                         [] n = "editorial" ->
                              EditorialBlock(
                                << [outlet |-> "Allure", quote |-> "q1"],
                                   [outlet |-> "allure", quote |-> "q2"] >>)],
      specifications |-> [size |-> Some("50ml"), form |-> None],
      summarized_review |-> SummaryB,
      citations |-> {}] :
        a \in {PlainDict,
               PlatformData(Some([amount |-> Some(20)]),
                            Some([average |-> Some(3)]), Some(<<"r1">>)),
               PlatformData(None, None, Some(<< >>))}}

\* The (product_id, snap) arguments of the store_snapshot calls; the second
\* product is stored with the snapshots that have a sephora entry.
StoreCalls ==
    ({"p1"} \X StoreSnapshots)
    \cup ({"p2"} \X {s \in StoreSnapshots : "sephora" \in DOMAIN s.platforms})

(***************************************************************************)
(* State                                                                   *)
(***************************************************************************)
VARIABLES
    offers, price_history, ratings, reviews, specs, summaries,  \* the tables
    today,      \* (NOW() AT TIME ZONE 'UTC')::date
    stores,     \* store_snapshot calls made so far
    call,       \* the last store_snapshot call: arguments, result and
                \* what the properties need to know about how it went
    variant,    \* the ingestion endpoint serving the request
    pc,         \* position of the request handler
    seg,        \* per segment: the state of its fetch task
    segRaised,  \* per segment: its fetch raised (transport, timeout, unparsable)
    fut,        \* per segment: the value its task returned
    chunk_results,      \* the results collected so far
    collected,          \* the chunk names, in the order their results came in
    summary_data,       \* what the synthesis call returned
    synthRaised,        \* the synthesis call raised
    parsed_data,        \* the merged record handed to validation
    rewrote,            \* strict validation failed and the rewrites were applied
    validated_snapshot, \* the RootSnapshot handed to the store step
    conn,       \* the connection of the store step: none, open, closed
    http,       \* status code of the response, 0 while there is none
    detail,     \* what the response body says went wrong, "" when nothing
    cause,      \* what made the run fail, "none" when nothing
    debug,      \* how the last write of a debug artifact went
    llm_calls,  \* model calls made so far
    raw,        \* the text handed to safe_json_parse, a sequence of characters
    max_bytes,  \* its max_bytes argument
    result,     \* what the call did: pending, returned a value, or raised
    helper,     \* a call of a helper function: its name, arguments, result
    batch       \* the run of ingest_all_products: the product list, the
                \* position of the loop, processed, errors, the response

tables ==
    [offers |-> offers, price_history |-> price_history, ratings |-> ratings,
     reviews |-> reviews, specs |-> specs, summaries |-> summaries]

dbvars == <<offers, price_history, ratings, reviews, specs, summaries>>

storevars == <<today, stores, call>>

parsevars == <<raw, max_bytes, result>>

runvars ==
    <<variant, pc, seg, segRaised, fut, chunk_results, collected, summary_data,
      synthRaised,
      parsed_data, rewrote, validated_snapshot, conn, http, detail, cause,
      debug, llm_calls>>

vars == <<offers, price_history, ratings, reviews, specs, summaries,
          today, stores, call,
          variant, pc, seg, segRaised, fut, chunk_results, collected, summary_data,
          synthRaised, parsed_data, rewrote, validated_snapshot, conn, http,
          detail, cause, debug, llm_calls, raw, max_bytes, result, helper,
          batch>>

NoSnapshot ==
    [platforms |-> [n \in {} |-> PlainDict],
     specifications |-> [size |-> None, form |-> None],
     summarized_review |-> [pros |-> << >>, cons |-> << >>, verdict |-> ""],
     citations |-> {}]

NoCall ==
    [product_id |-> "none", snap |-> NoSnapshot, model_name |-> "none",
     prompt_hash |-> "none", ok |-> FALSE, today |-> 0,
     partial |-> FALSE, repeat |-> FALSE]

SetTables(t) ==
    /\ offers' = t.offers
    /\ price_history' = t.price_history
    /\ ratings' = t.ratings
    /\ reviews' = t.reviews
    /\ specs' = t.specs
    /\ summaries' = t.summaries

\* parallel_tasks, in submission order.
Segments == <<"retail", "editorial", "influencer">>

SegmentNames == {Segments[i] : i \in 1..Len(Segments)}

\* A parsed record: product_identity is "absent" (no such key), "empty" ({},
\* no name) or "named"; extra holds the top-level keys outside the schema;
\* review_lengths holds the number of characters of master_summary and of
\* the longest entry of platform_insights in summarized_review, 0 when the
\* field is absent.
NoPlatforms == [n \in {} |-> PlainDict]

NoData ==
    [product_identity |-> "absent", platforms |-> NoPlatforms,
     summarized_review |-> [pros |-> None, cons |-> None, verdict |-> None],
     review_lengths |-> [master_summary |-> 0, platform_insights |-> 0],
     extra |-> {}]

\* No safe_json_parse call is under way.
ParseIdle == raw = << >> /\ max_bytes = 0 /\ result = [status |-> "none", raised |-> "", value |-> << >>]

\* No helper function is being called.  A call is [fn, args, ret]: ret is
\* << >> until the function returns and <<value>> after.
HelperIdle == helper = [fn |-> "none", args |-> << >>, ret |-> << >>]

\* A run of ingest_all_products over the given products, before the loop.
BatchOver(products) ==
    [products |-> products, next |-> 1, processed |-> 0, errors |-> << >>,
     returned |-> FALSE]

\* No batch is running.
BatchIdle == batch = [BatchOver(<< >>) EXCEPT !.returned = TRUE]

\* No request is being served.
RunIdle ==
    /\ variant = "none"
    /\ pc = "idle"
    /\ seg = [s \in SegmentNames |-> "pending"]
    /\ segRaised = [s \in SegmentNames |-> FALSE]
    /\ fut = [s \in SegmentNames |-> None]
    /\ chunk_results = [s \in {} |-> None]
    /\ collected = << >>
    /\ summary_data = NoData
    /\ synthRaised = FALSE
    /\ parsed_data = NoData
    /\ rewrote = FALSE
    /\ validated_snapshot = NoSnapshot
    /\ conn = "none"
    /\ http = 0
    /\ detail = ""
    /\ cause = "none"
    /\ debug = "none"
    /\ llm_calls = 0

InitStore ==
    /\ RunIdle
    /\ ParseIdle
    /\ HelperIdle
    /\ BatchIdle
    /\ offers = EmptyTables.offers
    /\ price_history = EmptyTables.price_history
    /\ ratings = EmptyTables.ratings
    /\ reviews = EmptyTables.reviews
    /\ specs = EmptyTables.specs
    /\ summaries = EmptyTables.summaries
    /\ today = 0
    /\ stores = 0
    /\ call = NoCall

\* One call store_snapshot(product_id, snap, model_name, prompt_hash).
StoreSnapshot ==
    /\ stores < MaxStores
    /\ \E args \in StoreCalls, model_name \in {"gpt"} :
         \E failAt \in FailPoints(args[1], args[2], model_name, "h", today) :
            LET product_id == args[1]
                snap == args[2]
                res == store_snapshot(tables, product_id, snap, model_name, "h",
                                      today, failAt)
            IN  /\ SetTables(res.tables)
                /\ call' = [product_id |-> product_id, snap |-> snap,
                            model_name |-> model_name, prompt_hash |-> "h",
                            ok |-> res.ok, today |-> today,
                            \* statements ran before the failure
                            partial |-> failAt # None /\ failAt[1] > 1,
                            \* the same call as the one before, which succeeded
                            repeat |-> /\ call.ok
                                       /\ call.product_id = product_id
                                       /\ call.snap = snap
                                       /\ call.model_name = model_name]
    /\ stores' = stores + 1
    /\ UNCHANGED <<today, runvars, parsevars, helper, batch>>

\* The UTC day changes.
Tick ==
    /\ today < MaxDay
    /\ today' = today + 1
    /\ UNCHANGED <<dbvars, stores, call, runvars, parsevars, helper, batch>>

NextStore == StoreSnapshot \/ Tick

SpecStore == InitStore /\ [][NextStore]_vars

(***************************************************************************)
(* models.py: RootSnapshot validation                                      *)
(***************************************************************************)
\* SummarizedReview.master_summary: max_length=300.
MasterSummaryMax == 300

\* PlatformInsights: max_length=150 on each consensus.
PlatformInsightMax == 150

\* Texts that are as long as the schema allows.
TextsAtLimit ==
    [master_summary |-> MasterSummaryMax, platform_insights |-> PlatformInsightMax]

\* Texts of which one is a character longer than the schema allows.
LongTexts ==
    {[TextsAtLimit EXCEPT !.master_summary = MasterSummaryMax + 1],
     [TextsAtLimit EXCEPT !.platform_insights = PlatformInsightMax + 1]}

\* The max_length checks of SummarizedReview and PlatformInsights.
LengthsValid(lengths) ==
    /\ lengths.master_summary <= MasterSummaryMax
    /\ lengths.platform_insights <= PlatformInsightMax

valid_platforms ==
    {"amazon", "sephora", "ulta", "walmart", "nordstrom", "brand_site",
     "editorial", "youtube", "instagram"}

\* The platform check is skipped.
validate_platforms_skipped(platforms) == TRUE

\* RootSnapshot.validate_platforms: every key is a known platform.
validate_platforms(platforms) ==
    \A platform_name \in DOMAIN platforms : platform_name \in valid_platforms

\* The flexible policy: up to 7 pros and up to 7 cons.
SummarizedReviewFlexible(review) ==
    /\ review.pros # None /\ Len(review.pros[1]) <= 7
    /\ review.cons # None /\ Len(review.cons[1]) <= 7
    /\ review.verdict # None /\ review.verdict[1] # ""

\* SummarizedReview: exactly 3 pros, exactly 3 cons, a non-empty verdict.
SummarizedReviewValid(review) ==
    /\ review.pros # None /\ Len(review.pros[1]) = 3
    /\ review.cons # None /\ Len(review.cons[1]) = 3
    /\ review.verdict # None /\ review.verdict[1] # ""

\* The field checks of RootSnapshot(...) on the given keyword arguments.
FieldsValid(data) ==
    /\ data.product_identity = "named"
    /\ SummarizedReviewValid(data.summarized_review)
    /\ LengthsValid(data.review_lengths)
    /\ validate_platforms(data.platforms)

\* RootSnapshot(**parsed_data): extra = "forbid" rejects unknown top-level keys.
RootSnapshotValid(data) == data.extra = {} /\ FieldsValid(data)

\* The corrective rewrites of the except branch and the keyword arguments of
\* the second RootSnapshot(...) call.  parsed_data.get("product_identity",
\* default) uses the default only when the key is absent.
Rewrite(data) ==
    LET review == data.summarized_review
    IN  [product_identity |->
            IF data.product_identity = "absent" THEN "named"
            ELSE data.product_identity,
         platforms |-> data.platforms,
         summarized_review |->
            [pros |-> IF review.pros = None THEN Some(<< >>) ELSE review.pros,
             cons |-> IF review.cons = None THEN Some(<< >>) ELSE review.cons,
             verdict |-> IF review.verdict = None THEN Some("default verdict")
                         ELSE review.verdict],
         review_lengths |-> data.review_lengths,
         extra |-> {}]

\* insights[key] = value[:147] + "..." on a value of more than 150
\* characters: the number of characters left.
TruncatedInsight(length) ==
    IF length > 150 THEN Min2(length, 147) + 3 ELSE length

\* The rewrites of the variant's except branch: those all variants share
\* and, in ingest_product_chunked only, the cut of the platform_insights
\* entries.
RewriteOf(v, data) ==
    IF v = "chunked"
    THEN [Rewrite(data) EXCEPT !.review_lengths.platform_insights =
                                   TruncatedInsight(@)]
    ELSE Rewrite(data)

\* How pydantic resolved the Union of the platforms values: to the model
\* classes or to plain dicts.
UnionResolutions == {"model", "dict"}

\* The validated RootSnapshot of a record that passed validation.
ToSnapshot(data, resolution) ==
    [platforms |->
        [n \in DOMAIN data.platforms |->
            IF resolution = "dict" THEN data.platforms[n]
            ELSE IF n = "editorial"
                 THEN [data.platforms[n] EXCEPT !.kind = "EditorialBlock"]
                 ELSE IF n = "youtube"
                      THEN [data.platforms[n] EXCEPT !.kind = "YoutubeBlock"]
                 ELSE IF n = "instagram"
                      THEN [data.platforms[n] EXCEPT !.kind = "InstagramBlock"]
                      ELSE [data.platforms[n] EXCEPT !.kind = "PlatformData"]],
     specifications |-> [size |-> Some("50ml"), form |-> None],
     summarized_review |->
        [pros |-> data.summarized_review.pros[1],
         cons |-> data.summarized_review.cons[1],
         verdict |-> data.summarized_review.verdict[1]],
     citations |-> {}]

(***************************************************************************)
(* chunked_llama.py / parallel_llama.py: fetches, synthesis, merge         *)
(***************************************************************************)
RawEntry(amount) ==
    [kind |-> "dict", price |-> Some([amount |-> Some(amount)]),
     rating |-> Some([average |-> Some(4)]), reviews |-> Some(<<"r1">>),
     quotes |-> << >>]

RawEditorial ==
    [kind |-> "dict", price |-> None, rating |-> None, reviews |-> None,
     quotes |-> << [outlet |-> "Allure", quote |-> "q1"] >>]

\* The platforms a segment's model call can come back with.
SegmentOutputs(s) ==
    CASE s = "retail" ->
           {[n \in S |-> RawEntry(10)] :
              S \in SUBSET {"amazon", "sephora", "ulta"}}
      [] s = "editorial" ->
           {[n \in {"editorial"} |-> RawEditorial],
            [n \in {"brand_site", "editorial"} |->
               IF n = "brand_site" THEN RawEntry(30) ELSE RawEditorial],
            [n \in {"amazon"} |-> RawEntry(20)]}
      [] s = "influencer" ->
           {[n \in {"youtube"} |-> PlainDict],
            [n \in {"tiktok"} |-> PlainDict]}

\* What a model call does: it raises (timeout in the message, another
\* transport error, or an answer that cannot be parsed) or its answer
\* parses to data.
Failures == {"timeout", "error", "unparsable"}

FetchOutcomes(s) ==
    {[ok |-> FALSE, why |-> w, data |-> NoPlatforms] : w \in Failures}
    \cup {[ok |-> TRUE, why |-> "ok", data |-> m] : m \in SegmentOutputs(s)}

ThreeItems == <<"x1", "x2", "x3">>
FiveItems == <<"x1", "x2", "x3", "x4", "x5">>

\* The records the synthesis call can come back with.
SynthOutputs ==
    {[product_identity |-> "named", platforms |-> NoPlatforms,
      summarized_review |-> r, review_lengths |-> TextsAtLimit, extra |-> {}] :
        r \in {[pros |-> Some(ThreeItems), cons |-> Some(ThreeItems),
                verdict |-> Some("v")],
               [pros |-> Some(ThreeItems), cons |-> Some(ThreeItems),
                verdict |-> None],
               [pros |-> None, cons |-> Some(ThreeItems), verdict |-> Some("v")],
               [pros |-> Some(FiveItems), cons |-> Some(ThreeItems),
                verdict |-> Some("v")],
               [pros |-> Some(ThreeItems), cons |-> None, verdict |-> Some("v")]}}
    \cup
    {[product_identity |-> "absent", platforms |-> NoPlatforms,
      summarized_review |-> [pros |-> Some(ThreeItems), cons |-> Some(ThreeItems),
                             verdict |-> Some("v")],
      review_lengths |-> TextsAtLimit,
      extra |-> {}]}
    \cup
    {[product_identity |-> "named", platforms |-> NoPlatforms,
      summarized_review |-> [pros |-> Some(ThreeItems), cons |-> Some(ThreeItems),
                             verdict |-> Some("v")],
      review_lengths |-> l,
      extra |-> {}] : l \in LongTexts}

SynthOutcomes ==
    {[ok |-> FALSE, why |-> w, data |-> NoData] : w \in Failures}
    \cup {[ok |-> TRUE, why |-> "ok", data |-> d] : d \in SynthOutputs}

\* A failed call yields a placeholder record instead of raising.
make_llm_call_swallows(outcome) ==
    [raised |-> FALSE,
     data |-> IF outcome.ok THEN outcome.data
              ELSE [product_identity |-> "named", platforms |-> NoPlatforms,
                    summarized_review |->
                        [pros |-> Some(ThreeItems), cons |-> Some(ThreeItems),
                         verdict |-> Some("placeholder")],
                    review_lengths |-> TextsAtLimit,
                    extra |-> {}]]

\* _make_llm_call: returns the parsed data, raises on a transport failure
\* and on data that is empty or unparsable.
make_llm_call(outcome) ==
    [raised |-> ~outcome.ok, data |-> outcome.data]

\* _fetch_*_wrapper: the chunk data, or {} when the fetch raised.  Some(m)
\* is {"platforms": m} and None is {}.
FetchWrapper(outcome) ==
    IF make_llm_call(outcome).raised THEN None ELSE Some(outcome.data)

\* chunk.get("platforms", {})
PlatformsOf(chunk) == IF chunk = None THEN NoPlatforms ELSE chunk[1]

\* results.get(name, {})
ChunkOf(results, name) == IF name \in DOMAIN results THEN results[name] ELSE None

\* A key that both maps hold keeps the value of the first.
update_keeps_first(f, g) ==
    [k \in (DOMAIN f) \cup (DOMAIN g) |-> IF k \in DOMAIN f THEN f[k] ELSE g[k]]

\* dict.update
Update(f, g) ==
    [k \in (DOMAIN f) \cup (DOMAIN g) |-> IF k \in DOMAIN g THEN g[k] ELSE f[k]]

\* The editorial platforms are left out of the merge.
merge_without_editorial(results, summary) ==
    [product_identity |->
        IF summary.product_identity = "absent" THEN "empty"
        ELSE summary.product_identity,
     platforms |->
        Update(PlatformsOf(ChunkOf(results, "retail")),
               PlatformsOf(ChunkOf(results, "influencer"))),
     summarized_review |-> summary.summarized_review,
     review_lengths |-> summary.review_lengths,
     extra |-> {}]

\* The chunks are merged in the order their results came in.
merge_in_completion_order(completion_order) == completion_order

\* The order in which the merge takes the chunks: that of its statements
\* (retail, editorial, influencer), whatever the order of completion.
MergeOrder(completion_order) == Segments

\* final_data["platforms"].update(...) for the chunks of the order, from
\* the first to the last.
RECURSIVE MergePlatforms(_, _)
MergePlatforms(results, order) ==
    IF order = << >> THEN NoPlatforms
    ELSE Update(MergePlatforms(results, SubSeq(order, 1, Len(order) - 1)),
                PlatformsOf(ChunkOf(results, order[Len(order)])))

\* _merge_parallel_results (and step 6 of fetch_product_snapshot_chunked):
\* summary_data.get("product_identity", {}) and the platforms of the retail,
\* editorial and influencer chunks, in that order.
merge_parallel_results(results, summary) ==
    [product_identity |->
        IF summary.product_identity = "absent" THEN "empty"
        ELSE summary.product_identity,
     platforms |-> MergePlatforms(results, MergeOrder(collected)),
     summarized_review |-> summary.summarized_review,
     review_lengths |-> summary.review_lengths,
     extra |-> {}]

\* Step 5 of fetch_product_snapshot_adaptive: {**summary_data, "platforms":
\* ..., "adaptive_metadata": ...}.
merge_adaptive(results, summary) ==
    [product_identity |-> summary.product_identity,
     platforms |->
        Update(Update(PlatformsOf(ChunkOf(results, "retail")),
                      PlatformsOf(ChunkOf(results, "editorial"))),
               PlatformsOf(ChunkOf(results, "influencer"))),
     summarized_review |-> summary.summarized_review,
     review_lengths |-> summary.review_lengths,
     extra |-> {"adaptive_metadata"}]

\* The loop over as_completed ends at the first result.
AllCollectedAfterFirst(results) == DOMAIN results # {}

\* The loop over as_completed(future_to_chunk) has ended: every future has
\* been yielded and its result stored.
AllCollected(results) == DOMAIN results = SegmentNames

(***************************************************************************)
(* main.py: the ingestion endpoints, one run on product p1                 *)
(***************************************************************************)

\* OPENROUTER_MODEL, with the marker the variant appends.
ModelNameOf(v) == IF v = "legacy" THEN "gpt" ELSE "gpt_chunked"

\* What the single legacy model call can come back with: the error JSON of
\* the except branch of fetch_product_snapshot, text that safe_json_parse
\* cannot parse, or a record.
LegacyOutputs ==
    {[product_identity |-> "named", platforms |-> m,
      summarized_review |-> [pros |-> Some(ThreeItems), cons |-> c,
                             verdict |-> v],
      review_lengths |-> TextsAtLimit,
      extra |-> {}] :
        c \in {Some(ThreeItems), Some(FiveItems)},
        m \in {[n \in {"amazon"} |-> RawEntry(10)],
               [n \in {"amazon", "tiktok"} |->
                    IF n = "amazon" THEN RawEntry(10) ELSE PlainDict]},
        v \in {None, Some("v")}}

LegacyOutcomes ==
    {[kind |-> "unparsable", data |-> NoData],
     [kind |-> "failed", data |-> [NoData EXCEPT !.extra = {"error", "status"}]]}
    \cup {[kind |-> "ok", data |-> d] : d \in LegacyOutputs}

\* The parallel aggregate keeps the platforms of the retail chunk only.
merged_parallel_retail_only(v, results, summary) ==
    IF v = "adaptive" THEN merge_adaptive(results, summary)
    ELSE IF v = "parallel"
    THEN [merge_parallel_results(results, summary) EXCEPT
              !.platforms = PlatformsOf(ChunkOf(results, "retail"))]
    ELSE merge_parallel_results(results, summary)

\* The merge of the variant's aggregate.
Merged(v, results, summary) ==
    IF v = "adaptive" THEN merge_adaptive(results, summary)
    ELSE merge_parallel_results(results, summary)

\* The status of a run whose aggregate raised: the chunked endpoint answers
\* 422 when the message holds "timeout", everything else is a 500.
AggregateFailureStatus(v, why) ==
    IF v = "chunked" /\ why = "timeout" THEN 422 ELSE 500

\* The status of a run whose second RootSnapshot(...) call raised.
RevalidationFailureStatus(v) == IF v = "adaptive" THEN 422 ELSE 500

\* The next chunk of the sequential aggregates.
NextSegment(results) ==
    IF "retail" \notin DOMAIN results THEN "retail"
    ELSE IF "editorial" \notin DOMAIN results THEN "editorial"
    ELSE "influencer"

\* How a write of a debug artifact can go: written, the open or the dump
\* fails, or (save_invalid_output only) the log directory cannot be made.
FileWrites == {"ok", "open_fails"}

SaveOutcomes == FileWrites \cup {"mkdir_fails"}

\* save_invalid_output: log_dir.mkdir(...) runs before the try block, the
\* open and the dump run inside it.
save_invalid_output(w) == [raised |-> w = "mkdir_fails"]

\* The failure class of a model call that raised.
CauseOf(why) == IF why = "unparsable" THEN "unparsable" ELSE "llm"

\* The body of the response to an aggregate that raised.
AggregateFailureDetail(v, why) ==
    IF AggregateFailureStatus(v, why) = 422 THEN "llm_timeout" ELSE "exception"

\* The run goes on to the model call although the product is missing.
after_lookup_proceeds(found) == "fetch"

\* "if not product: raise HTTPException(status_code=404, ...)": the handler
\* is left when the product is missing and goes on to the fetch otherwise.
AfterLookup(found) == IF found THEN "fetch" ELSE "done"

\* get_product_by_id: the product is there, or the endpoint answers 404.
StartRun ==
    /\ pc = "idle"
    /\ \E v \in {"legacy", "chunked", "adaptive", "parallel"}, found \in BOOLEAN :
          /\ variant' = v
          /\ pc' = AfterLookup(found)
          /\ IF found
             THEN UNCHANGED <<http, detail, cause>>
             ELSE /\ http' = 404
                  /\ detail' = "not_found" /\ cause' = "not_found"
    /\ UNCHANGED <<dbvars, storevars, parsevars, helper, batch, seg, segRaised, fut, chunk_results, collected,
                   summary_data, synthRaised, parsed_data, rewrote,
                   validated_snapshot, conn, debug, llm_calls>>

\* ingest_product: fetch_product_snapshot and safe_json_parse.
LegacyFetch ==
    /\ variant = "legacy" /\ pc = "fetch"
    /\ llm_calls' = llm_calls + 1
    /\ \E o \in LegacyOutcomes :
          IF o.kind = "unparsable"
          THEN /\ pc' = "done"
               /\ cause' = "unparsable"
               /\ \E w \in SaveOutcomes :
                     /\ debug' = w
                     /\ IF save_invalid_output(w).raised
                        THEN http' = 500 /\ detail' = "exception"
                        ELSE http' = 422 /\ detail' = "validation_error"
               /\ UNCHANGED parsed_data
          ELSE /\ pc' = "validate"
               /\ parsed_data' = o.data
               /\ cause' = IF o.kind = "failed" THEN "llm" ELSE cause
               /\ UNCHANGED <<http, detail, debug>>
    /\ UNCHANGED <<dbvars, storevars, parsevars, helper, batch, variant, seg, segRaised, fut,
                   chunk_results, collected, summary_data, synthRaised, rewrote,
                   validated_snapshot, conn>>

\* fetch_product_snapshot_chunked / fetch_product_snapshot_adaptive: the
\* next of the three chunk calls; a call that raises ends the aggregate.
\* _make_llm_call writes a debug file for an answer it cannot parse.
SeqFetch ==
    /\ variant \in {"chunked", "adaptive"} /\ pc = "fetch"
    /\ llm_calls' = llm_calls + 1
    /\ LET s == NextSegment(chunk_results)
       IN  \E o \in FetchOutcomes(s), w \in FileWrites :
              /\ seg' = [seg EXCEPT ![s] = "finished"]
              /\ segRaised' = [segRaised EXCEPT ![s] = ~o.ok]
              /\ debug' = IF o.why = "unparsable" THEN w ELSE debug
              /\ IF make_llm_call(o).raised
                 THEN /\ pc' = "done"
                      /\ http' = AggregateFailureStatus(variant, o.why)
                      /\ detail' = AggregateFailureDetail(variant, o.why)
                      /\ cause' = CauseOf(o.why)
                      /\ UNCHANGED <<chunk_results, collected>>
                 ELSE /\ chunk_results' =
                            [k \in (DOMAIN chunk_results) \cup {s} |->
                                IF k = s THEN Some(o.data) ELSE chunk_results[k]]
                      /\ collected' = Append(collected, s)
                      /\ pc' = IF s = "influencer" THEN "synth" ELSE "fetch"
                      /\ UNCHANGED <<http, detail, cause>>
    /\ UNCHANGED <<dbvars, storevars, parsevars, helper, batch, variant, fut, summary_data, synthRaised,
                   parsed_data, rewrote, validated_snapshot, conn>>

\* fetch_product_snapshot_parallel: the three wrappers are submitted.
Submit ==
    /\ variant = "parallel" /\ pc = "fetch"
    /\ seg' = [s \in SegmentNames |-> "running"]
    /\ pc' = "collect"
    /\ llm_calls' = llm_calls + Len(Segments)
    /\ UNCHANGED <<dbvars, storevars, parsevars, helper, batch, variant, segRaised, fut, chunk_results, collected,
                   summary_data, synthRaised, parsed_data, rewrote,
                   validated_snapshot, conn, http, detail, cause, debug>>

\* A wrapper's model call comes back and its future completes.
SegReturn ==
    /\ variant = "parallel"
    /\ \E s \in SegmentNames :
          /\ seg[s] = "running"
          /\ \E o \in FetchOutcomes(s), w \in FileWrites :
                /\ seg' = [seg EXCEPT ![s] = "finished"]
                /\ segRaised' = [segRaised EXCEPT ![s] = ~o.ok]
                /\ fut' = [fut EXCEPT ![s] = FetchWrapper(o)]
                /\ debug' = IF o.why = "unparsable" THEN w ELSE debug
    /\ UNCHANGED <<dbvars, storevars, parsevars, helper, batch, variant, pc, chunk_results, collected, summary_data,
                   synthRaised, parsed_data, rewrote, validated_snapshot, conn,
                   http, detail, cause, llm_calls>>

\* A wrapper's model call never comes back: its future never completes.
SegHang ==
    /\ variant = "parallel"
    /\ \E s \in SegmentNames :
          /\ seg[s] = "running"
          /\ seg' = [seg EXCEPT ![s] = "hung"]
    /\ UNCHANGED <<dbvars, storevars, parsevars, helper, batch, variant, pc, segRaised, fut,
                   chunk_results, collected, summary_data, synthRaised, parsed_data,
                   rewrote, validated_snapshot, conn, http, detail, cause,
                   debug, llm_calls>>

\* One turn of the loop over as_completed: it yields a completed future,
\* whose result is stored under the chunk's name.
Collect ==
    /\ variant = "parallel" /\ pc = "collect"
    /\ \E s \in SegmentNames \ DOMAIN chunk_results :
          /\ seg[s] = "finished"
          /\ chunk_results' =
                [k \in (DOMAIN chunk_results) \cup {s} |->
                    IF k = s THEN fut[s] ELSE chunk_results[k]]
          /\ collected' = Append(collected, s)
    /\ UNCHANGED <<dbvars, storevars, parsevars, helper, batch, variant, pc, seg, segRaised, fut,
                   summary_data, synthRaised, parsed_data, rewrote,
                   validated_snapshot, conn, http, detail, cause, debug,
                   llm_calls>>

\* The loop has ended and fetch_summary_chunk is called.
SynthStart ==
    /\ variant = "parallel" /\ pc = "collect"
    /\ AllCollected(chunk_results)
    /\ pc' = "synth"
    /\ UNCHANGED <<dbvars, storevars, parsevars, helper, batch, variant, seg, segRaised, fut,
                   chunk_results, collected, summary_data, synthRaised, parsed_data,
                   rewrote, validated_snapshot, conn, http, detail, cause,
                   debug, llm_calls>>

\* The summary call comes back: the aggregate merges and returns, or the
\* exception reaches the endpoint.
SynthReturn ==
    /\ pc = "synth"
    /\ llm_calls' = llm_calls + 1
    /\ \E o \in SynthOutcomes, w \in FileWrites :
          LET r == make_llm_call(o)
          IN  /\ synthRaised' = ~o.ok
              /\ debug' = IF o.why = "unparsable" THEN w ELSE debug
              /\ IF r.raised
                 THEN /\ pc' = "done"
                      /\ http' = AggregateFailureStatus(variant, o.why)
                      /\ detail' = AggregateFailureDetail(variant, o.why)
                      /\ cause' = CauseOf(o.why)
                      /\ UNCHANGED <<summary_data, parsed_data>>
                 ELSE /\ summary_data' = r.data
                      /\ parsed_data' = Merged(variant, chunk_results, r.data)
                      /\ pc' = "validate"
                      /\ UNCHANGED <<http, detail, cause>>
    /\ UNCHANGED <<dbvars, storevars, parsevars, helper, batch, variant, seg, segRaised, fut,
                   chunk_results, collected, rewrote, validated_snapshot, conn>>

\* The body of the response to a record that failed validation for good.
ValidationFailureDetail(v) ==
    IF v \in {"legacy", "adaptive"} THEN "validation_error" ELSE "exception"

\* RootSnapshot(**parsed_data) and, outside the legacy endpoint, the
\* rewrites and the second RootSnapshot(...) call of the except branch.
\* The legacy endpoint saves the invalid output; the other variants write
\* the merged record to a debug file inside a try block.
Validate ==
    /\ pc = "validate"
    /\ \E resolution \in UnionResolutions, w \in SaveOutcomes :
          IF variant = "legacy"
          THEN IF RootSnapshotValid(parsed_data)
               THEN /\ validated_snapshot' = ToSnapshot(parsed_data, resolution)
                    /\ pc' = "store"
                    /\ UNCHANGED <<rewrote, http, detail, cause, debug>>
               ELSE /\ pc' = "done"
                    /\ cause' = IF cause = "none" THEN "validation" ELSE cause
                    /\ debug' = w
                    /\ IF save_invalid_output(w).raised
                       THEN http' = 500 /\ detail' = "exception"
                       ELSE http' = 422 /\ detail' = ValidationFailureDetail(variant)
                    /\ UNCHANGED <<rewrote, validated_snapshot>>
          ELSE /\ w \in FileWrites
               /\ debug' = w
               /\ IF RootSnapshotValid(parsed_data)
                  THEN /\ validated_snapshot' = ToSnapshot(parsed_data, resolution)
                       /\ pc' = "store"
                       /\ UNCHANGED <<rewrote, http, detail, cause>>
                  ELSE /\ rewrote' = TRUE
                       /\ IF FieldsValid(RewriteOf(variant, parsed_data))
                          THEN /\ validated_snapshot' =
                                    ToSnapshot(RewriteOf(variant, parsed_data),
                                               resolution)
                               /\ pc' = "store"
                               /\ UNCHANGED <<http, detail, cause>>
                          ELSE /\ pc' = "done"
                               /\ http' = RevalidationFailureStatus(variant)
                               /\ detail' = ValidationFailureDetail(variant)
                               /\ cause' = "validation"
                               /\ UNCHANGED validated_snapshot
    /\ UNCHANGED <<dbvars, storevars, parsevars, helper, batch, variant, seg, segRaised, fut,
                   chunk_results, collected, summary_data, synthRaised, parsed_data, conn,
                   llm_calls>>

\* ingest_product / ingest_product_chunked: store_snapshot(product_id,
\* validated_snapshot, model_name, prompt_hash), then the read back.
StoreCall ==
    /\ pc = "store" /\ variant \in {"legacy", "chunked"}
    /\ \E failAt \in FailPoints("p1", validated_snapshot, ModelNameOf(variant),
                                "h", today),
          readOk \in BOOLEAN :
          LET res == store_snapshot(tables, "p1", validated_snapshot,
                                    ModelNameOf(variant), "h", today, failAt)
          IN  /\ SetTables(res.tables)
              /\ conn' = IF failAt = Some(0) THEN "none" ELSE "closed"
              /\ http' = IF res.ok /\ readOk THEN 200 ELSE 500
              /\ detail' = IF ~res.ok THEN "store_failed"
                           ELSE IF ~readOk THEN "read_failed" ELSE ""
              /\ cause' = IF ~res.ok THEN "storage"
                          ELSE IF ~readOk THEN "read" ELSE cause
    /\ pc' = "done"
    /\ UNCHANGED <<storevars, parsevars, helper, batch, variant, seg, segRaised, fut, chunk_results, collected,
                   summary_data, synthRaised, parsed_data, rewrote,
                   validated_snapshot, debug, llm_calls>>

\* ingest_product_adaptive / ingest_product_parallel: get_db_connection()
\* may raise; otherwise store_snapshot(cursor, product_id, validated_snapshot,
\* model_name, prompt_hash) passes five arguments to a function of four and
\* raises TypeError before any statement.  Either way the endpoint answers
\* 500; the connection, once open, is not closed by the with block.
StoreWithCursor ==
    /\ pc = "store" /\ variant \in {"adaptive", "parallel"}
    /\ \E connected \in BOOLEAN :
          conn' = IF connected THEN "open" ELSE "none"
    /\ http' = 500
    /\ detail' = "exception"
    /\ cause' = "storage"
    /\ pc' = "done"
    /\ UNCHANGED <<dbvars, storevars, parsevars, helper, batch, variant, seg, segRaised, fut,
                   chunk_results, collected, summary_data, synthRaised, parsed_data,
                   rewrote, validated_snapshot, debug, llm_calls>>

InitIngest ==
    /\ RunIdle
    /\ ParseIdle
    /\ HelperIdle
    /\ BatchIdle
    /\ offers = EmptyTables.offers
    /\ price_history = EmptyTables.price_history
    /\ ratings = EmptyTables.ratings
    /\ reviews = EmptyTables.reviews
    /\ specs = EmptyTables.specs
    /\ summaries = EmptyTables.summaries
    /\ today = 0
    /\ stores = 0
    /\ call = NoCall

NextIngest ==
    \/ StartRun
    \/ LegacyFetch
    \/ SeqFetch
    \/ Submit
    \/ SegReturn
    \/ SegHang
    \/ Collect
    \/ SynthStart
    \/ SynthReturn
    \/ Validate
    \/ StoreCall
    \/ StoreWithCursor

SpecIngest == InitIngest /\ [][NextIngest]_vars

(***************************************************************************)
(* Properties of the store                                                 *)
(***************************************************************************)
\* The bodies of the reviews held for (product_id, retailer), in row order.
RECURSIVE Bodies(_)
Bodies(rows) ==
    IF rows = << >> THEN << >> ELSE <<Head(rows).body>> \o Bodies(Tail(rows))

ReviewsOf(tbl, product_id, retailer) ==
    Bodies(SelectSeq(tbl, LAMBDA r : r.product_id = product_id /\ r.retailer = retailer))

\* The retailers of a snapshot that store_platform_data is called for.
StoredRetailers(snap) ==
    {n \in DOMAIN snap.platforms :
        n # "editorial" /\ snap.platforms[n].kind = "PlatformData"}

OneRowPerKey ==
    /\ \A a, b \in offers : SameKey(a, b, RetailerKey) => a = b
    /\ \A a, b \in ratings : SameKey(a, b, RetailerKey) => a = b
    /\ \A a, b \in specs : SameKey(a, b, SpecKey) => a = b
    /\ \A a, b \in summaries : SameKey(a, b, ProductKey) => a = b

\* After a committed store every key of the snapshot has its row.
RowsOfLastStore ==
    call.ok =>
      /\ \A n \in StoredRetailers(call.snap) :
           /\ call.snap.platforms[n].price # None =>
                Cardinality({o \in offers : o.product_id = call.product_id
                                            /\ o.retailer = n}) = 1
           /\ call.snap.platforms[n].rating # None =>
                Cardinality({o \in ratings : o.product_id = call.product_id
                                             /\ o.retailer = n}) = 1
      /\ \A i \in 1..Len(SpecFields) :
           call.snap.specifications[SpecFields[i]] # None =>
             Cardinality({o \in specs : /\ o.product_id = call.product_id
                                        /\ o.key = <<"spec", SpecFields[i]>>
                                        /\ o.source = "aggregated"}) = 1
      /\ Cardinality({o \in summaries : o.product_id = call.product_id}) = 1

\* A step that is a store_snapshot call.
IsStoreStep == stores' = stores + 1

RepeatedStoreChangesNothing ==
    (IsStoreStep /\ call'.ok /\ call'.repeat) =>
        /\ offers' = offers
        /\ ratings' = ratings
        /\ specs' = specs
        /\ summaries' = summaries
        /\ \A p \in Products, n \in DOMAIN call'.snap.platforms :
             ReviewsOf(reviews', p, n) = ReviewsOf(reviews, p, n)
        /\ call'.today = call.today => price_history' = price_history

\* C1: storing the same validated snapshot a second time for the same
\* subject leaves offers, ratings, specs and summaries as the first store
\* left them, with exactly one row per key: one Offer and one Rating row per
\* (subject, retailer), one Spec row per (subject, key, source), one Summary
\* row per subject.
C1_IdempotentStore ==
    /\ [](OneRowPerKey /\ RowsOfLastStore)
    /\ [][RepeatedStoreChangesNothing]_vars

\* The same snapshot, with price, rating, reviews, specs and editorial
\* quotes, was stored twice in a row.
C1_Witness ==
    /\ call.ok /\ call.repeat
    /\ StoredRetailers(call.snap) = {"amazon", "sephora"}
    /\ Cardinality(offers) = 2 /\ Cardinality(ratings) = 2
    /\ Cardinality(summaries) = 1 /\ Cardinality(specs) = 2

PriceHistoryOf(tbl, product_id, retailer) ==
    {h \in tbl : h.product_id = product_id /\ h.retailer = retailer}

\* The price_history row a committed store of the call adds for (p, n).
HistoryRowDue(p, n) ==
    /\ call'.ok
    /\ p = call'.product_id
    /\ n \in StoredRetailers(call'.snap)
    /\ call'.snap.platforms[n].price # None
    /\ call'.snap.platforms[n].price[1].amount # None
    /\ ~\E h \in PriceHistoryOf(price_history, p, n) : h.day = today

PriceHistoryStep ==
    /\ price_history \subseteq price_history'
    /\ \A p \in Products, n \in {"amazon", "sephora"} :
         LET added == PriceHistoryOf(price_history', p, n) \ price_history
         IN  IF IsStoreStep /\ HistoryRowDue(p, n)
             THEN added = {[product_id |-> p, retailer |-> n, day |-> today,
                            price_amount |-> call'.snap.platforms[n].price[1].amount]}
             ELSE added = {}

\* C2: price_history has at most one row per (product, retailer, UTC day);
\* no step changes or removes an existing row, so a second store on the same
\* day leaves the day's row as it is even when the new price differs; the
\* first committed store of a price amount on a day without a row adds
\* exactly that one row, and nothing else ever adds a row.
C2_PriceHistoryAppendOnly ==
    /\ [](\A a, b \in price_history : SameKey(a, b, DayKey) => a = b)
    /\ [][PriceHistoryStep]_vars

\* A second store on the same day carried another price for amazon.
C2_Witness ==
    /\ call.ok /\ stores = 2
    /\ "amazon" \in StoredRetailers(call.snap)
    /\ call.snap.platforms["amazon"].price = Some([amount |-> Some(20)])
    /\ PriceHistoryOf(price_history, call.product_id, "amazon") =
         {[product_id |-> call.product_id, retailer |-> "amazon", day |-> today,
           price_amount |-> Some(10)]}

\* C3: after a committed store of a snapshot, the reviews held for every
\* retailer of that snapshot are exactly the snapshot's reviews for it (at
\* most 5), an empty or absent review list included.
C3_ReviewsReplaced ==
    call.ok =>
      \A n \in StoredRetailers(call.snap) :
        ReviewsOf(reviews, call.product_id, n) =
          (IF call.snap.platforms[n].reviews = None THEN << >>
           ELSE Take(call.snap.platforms[n].reviews[1], ReviewCap))

AllOrNothingStep ==
    IsStoreStep =>
      /\ ~call'.ok => UNCHANGED dbvars
      /\ call'.ok =>
           LET stmts == Statements(call'.product_id, call'.snap, call'.model_name,
                                   call'.prompt_hash, today)
           IN  tables' = ExecutePrefix(tables, stmts, Len(stmts))

AggregateReturned == variant = "parallel" /\ parsed_data # NoData

FailedSegments == {s \in SegmentNames : segRaised[s]}

\* The platform names the segments that succeeded came back with.
SucceededPlatforms ==
    UNION {DOMAIN PlatformsOf(fut[s]) : s \in SegmentNames \ FailedSegments}

DegradedMerge ==
    AggregateReturned =>
        /\ \A s \in FailedSegments : chunk_results[s] = None
        /\ DOMAIN parsed_data.platforms = SucceededPlatforms
        /\ \A n \in DOMAIN parsed_data.platforms :
              \E s \in SegmentNames \ FailedSegments :
                 /\ n \in DOMAIN PlatformsOf(fut[s])
                 /\ parsed_data.platforms[n] = PlatformsOf(fut[s])[n]

SynthesisSuccessReturns ==
    (variant = "parallel" /\ pc = "synth" /\ pc' # "synth" /\ ~synthRaised')
        => (pc' = "validate" /\ parsed_data' # NoData)

\* C5: when segment fetches of the parallel aggregate fail and synthesis
\* succeeds, the aggregate still returns a record; every failed segment's
\* partial record is empty and contributes no platform entry, and every
\* platform entry of the segments that succeeded is in the merged record.
C5_FailedSegmentsDegradeToEmpty ==
    []DegradedMerge /\ [][SynthesisSuccessReturns]_vars

C5_Witness ==
    /\ AggregateReturned
    /\ segRaised["retail"] /\ ~segRaised["editorial"] /\ ~segRaised["influencer"]
    /\ DOMAIN parsed_data.platforms = {"brand_site", "editorial", "youtube"}

SynthesisStarted ==
    pc \in {"synth", "validate", "store"} \/ synthRaised \/ parsed_data # NoData

StoreStarted ==
    pc = "store" \/ validated_snapshot # NoSnapshot \/ conn # "none"

\* C6: in the parallel aggregate the synthesis call starts only after all
\* three segment fetches have resolved and been collected, and the store
\* step starts only after synthesis has returned.
C6_FanOutBeforeFanIn ==
    variant = "parallel" =>
        /\ SynthesisStarted =>
              \A s \in SegmentNames :
                 seg[s] = "finished" /\ s \in DOMAIN chunk_results
        /\ StoreStarted =>
              /\ summary_data # NoData
              /\ pc # "synth"
              /\ ~synthRaised

C6_Witness ==
    /\ variant = "parallel" /\ pc = "done" /\ conn = "open"
    /\ segRaised["editorial"] /\ ~segRaised["retail"]

\* C7: a segment fetch of the parallel aggregate that never returns does not
\* stop the run: the run comes to rest only once it has ended, the hung
\* segment having been degraded to empty and synthesis reached.
C7_HungSegmentDoesNotBlock ==
    (variant = "parallel" /\ ~ENABLED NextIngest) => pc = "done"

\* C8: when the synthesis call of the parallel aggregate fails, the run ends
\* with an error: no merged record and no summary reach the endpoint, no
\* snapshot is validated, no connection is opened and no row is written.
C8_SynthesisFailureIsFatal ==
    (variant = "parallel" /\ synthRaised) =>
        /\ pc = "done" /\ http = 500
        /\ summary_data = NoData
        /\ parsed_data = NoData
        /\ validated_snapshot = NoSnapshot
        /\ conn = "none"
        /\ tables = EmptyTables

C8_Witness ==
    /\ variant = "parallel" /\ synthRaised /\ pc = "done"
    /\ \A s \in SegmentNames : ~segRaised[s] /\ PlatformsOf(fut[s]) # NoPlatforms

OffersOf(p) == {o \in offers : o.product_id = p}

\* C9: a parallel run from empty tables, with a reachable database, whose
\* retail segment yields priced entries for exactly 2 retailers, whose other
\* segments add no retailer, and whose synthesis and validation succeed,
\* ends with exactly those 2 offers rows for the product.
C9_TwoOffersPersisted ==
    (/\ variant = "parallel" /\ pc = "done" /\ conn = "open"
     /\ validated_snapshot # NoSnapshot
     /\ ~segRaised["retail"]
     /\ Cardinality(DOMAIN PlatformsOf(fut["retail"])) = 2
     /\ DOMAIN parsed_data.platforms \cap {"amazon", "sephora", "ulta", "brand_site"}
            = DOMAIN PlatformsOf(fut["retail"]))
    => /\ Cardinality(OffersOf("p1")) = 2
       /\ {o.retailer : o \in OffersOf("p1")} = DOMAIN PlatformsOf(fut["retail"])

UnknownKeys(platforms) == (DOMAIN platforms) \ valid_platforms

\* C10: a record with a platform key outside the fixed set fails the strict
\* validation and the validation of its rewritten form, the rewrites keep
\* its platform keys as they are, and the run validates no snapshot, opens
\* no connection, writes no row and ends with an error status.
C10_UnknownPlatformRejected ==
    UnknownKeys(parsed_data.platforms) # {} =>
        /\ ~RootSnapshotValid(parsed_data)
        /\ ~FieldsValid(RewriteOf(variant, parsed_data))
        /\ Rewrite(parsed_data).platforms = parsed_data.platforms
        /\ validated_snapshot = NoSnapshot
        /\ pc \in {"validate", "done"}
        /\ conn = "none"
        /\ tables = EmptyTables
        /\ pc = "done" => http \in {422, 500}

C10_Witness ==
    /\ "tiktok" \in UnknownKeys(parsed_data.platforms)
    /\ variant = "parallel" /\ rewrote /\ pc = "done"
    /\ SummarizedReviewValid(parsed_data.summarized_review)
    /\ parsed_data.product_identity = "named"

ExactlyThree(list) == list # None /\ Len(list[1]) = 3

\* The pros and cons of the record as the second validation sees them.
RewrittenReview == Rewrite(parsed_data).summarized_review

ReportedClass ==
    CASE detail = "llm_timeout" -> "llm"
      [] detail = "validation_error" -> "validation"
      [] detail = "store_failed" -> "storage"
      [] OTHER -> "unnamed"

\* The failure class of what made the run fail.
ActualClass ==
    CASE cause = "llm" -> "llm"
      [] cause \in {"unparsable", "validation"} -> "validation"
      [] cause = "storage" -> "storage"
      [] OTHER -> "unnamed"

\* C12: at every ingestion endpoint a failure to reach the model, a failure
\* to parse or validate the response, and a failure to persist are never
\* reported as one another: a response that names a failure class names the
\* class of what made the run fail.
C12_FailureClassesNotConfused ==
    (pc = "done" /\ ActualClass # "unnamed" /\ ReportedClass # "unnamed")
        => ReportedClass = ActualClass

(***************************************************************************)
(* json_repair.py: texts are sequences of one-byte characters, positions   *)
(* count from 0 as in the code                                             *)
(***************************************************************************)
\* s[a:b]
Slice(s, a, b) == SubSeq(s, a + 1, Min2(b, Len(s)))

\* s[i:i+len(pat)] == pat
StartsAt(s, pat, i) ==
    /\ i >= 0 /\ i + Len(pat) <= Len(s)
    /\ \A k \in 1..Len(pat) : s[i + k] = pat[k]

\* s.find(pat, start)
Find(s, pat, start) ==
    LET hits == {i \in start..(Len(s) - Len(pat)) : StartsAt(s, pat, i)}
    IN  IF hits = {} THEN -1
        ELSE CHOOSE i \in hits : \A j \in hits : i <= j

\* s.rfind(pat)
RFind(s, pat) ==
    LET hits == {i \in 0..(Len(s) - Len(pat)) : StartsAt(s, pat, i)}
    IN  IF hits = {} THEN -1
        ELSE CHOOSE i \in hits : \A j \in hits : i >= j

\* The characters of [\x00-\x1F\x7F] that the texts of the model use.
IsControl(c) == c \in {"\n", "\t"}

\* The characters of \s, and of JSON whitespace, that the texts use.
IsSpace(c) == c \in {" ", "\n", "\t"}

IsDigit(c) == c \in {"0", "1", "2", "3", "4", "5", "6", "7", "8", "9"}

RECURSIVE SkipSpace(_, _)
SkipSpace(s, p) ==
    IF p < Len(s) /\ IsSpace(s[p + 1]) THEN SkipSpace(s, p + 1) ELSE p

(***************************************************************************)
(* json.loads on the JSON the texts use: objects, arrays, strings with     *)
(* the escapes \" \\ \n, and unsigned integers.  A decoded value is        *)
(* [t, v]: an object is the sequence of its <<key, value>> pairs, an       *)
(* array the sequence of its items, a string or a number its characters.   *)
(***************************************************************************)
\* Nesting depth at which the decoder raises RecursionError; stands for
\* the recursion limit of the interpreter.
DecodeDepthLimit == 6

NoValue == [t |-> "none", v |-> << >>]

DecodeFails(kind) == [err |-> kind, pos |-> 0, val |-> NoValue]

Decoded(val, pos) == [err |-> "", pos |-> pos, val |-> val]

\* The element of a one-element set.  Only({e(x) : x \in {v}}) is e(v)
\* with v computed once, as a local variable of the code is.
Only(S) == CHOOSE x \in S : TRUE

\* The smallest and the largest of a set of positions.
First(positions) == CHOOSE i \in positions : \A j \in positions : i <= j

Last(positions) == CHOOSE i \in positions : \A j \in positions : i >= j

\* The character at position i is one that a backslash escapes: the run of
\* backslashes that ends just before it, counted from position p, is odd.
Escaped(s, p, i) ==
    Only({(IF stops = {} THEN i - p ELSE i - 1 - Last(stops)) % 2 = 1 :
            stops \in {{j \in p..(i - 1) : s[j + 1] # "\\"}}})

\* The backslash at position i opens an escape.
OpensEscape(s, p, i) == s[i + 1] = "\\" /\ ~Escaped(s, p, i)

\* The characters of the body s[p:close], escapes resolved.
StringBody(s, p, close) ==
    Only({[k \in 1..Cardinality(at) |->
              Only({IF Escaped(s, p, i) /\ s[i + 1] = "n" THEN "\n" ELSE s[i + 1] :
                      i \in {j \in at : Cardinality({h \in at : h < j}) = k - 1}})] :
            at \in {{i \in p..(close - 1) : ~OpensEscape(s, p, i)}}})

\* The body s[p:close] holds a raw control character or an escape other
\* than \" \\ \n.
BadBody(s, p, close) ==
    \E i \in p..(close - 1) :
        \/ IsControl(s[i + 1])
        \/ OpensEscape(s, p, i) /\ s[i + 2] \notin {"\"", "\\", "n"}

\* A string, from position p (after the opening quote) to the closing quote.
ScanString(s, p) ==
    Only({IF closes = {} THEN DecodeFails("JSONDecodeError")
          ELSE Only({IF BadBody(s, p, close) THEN DecodeFails("JSONDecodeError")
                     ELSE Decoded([t |-> "str", v |-> StringBody(s, p, close)],
                                  close + 1) :
                       close \in {First(closes)}}) :
            closes \in {{i \in p..(Len(s) - 1) :
                            s[i + 1] = "\"" /\ ~Escaped(s, p, i)}}})

\* An unsigned integer, from position p.
ScanNumber(s, p) ==
    Only({Decoded([t |-> "num", v |-> Slice(s, p, stop)], stop) :
            stop \in {First({i \in p..Len(s) :
                               i = Len(s) \/ ~IsDigit(s[i + 1])})}})

\* dict[key] = val: a repeated key keeps its place and takes the new value.
Put(pairs, key, val) ==
    IF \E i \in 1..Len(pairs) : pairs[i][1] = key
    THEN [i \in 1..Len(pairs) |->
            IF pairs[i][1] = key THEN <<key, val>> ELSE pairs[i]]
    ELSE Append(pairs, <<key, val>>)

RECURSIVE ParseValue(_, _, _)
RECURSIVE ParseMembers(_, _, _, _)
RECURSIVE ParseItems(_, _, _, _)

\* After a member that ends at position p: "," and the next member, or the
\* closing brace.
MembersAfter(s, p, depth, members) ==
    Only({IF e >= Len(s) THEN DecodeFails("JSONDecodeError")
          ELSE IF s[e + 1] = "," THEN ParseMembers(s, e + 1, depth, members)
          ELSE IF s[e + 1] = "}"
          THEN Decoded([t |-> "obj", v |-> members], e + 1)
          ELSE DecodeFails("JSONDecodeError") :
            e \in {SkipSpace(s, p)}})

\* The colon and the value of the member whose key k ends at k.pos.
MemberValue(s, k, depth, acc) ==
    Only({IF r >= Len(s) \/ s[r + 1] # ":" THEN DecodeFails("JSONDecodeError")
          ELSE Only({IF val.err # "" THEN DecodeFails(val.err)
                     ELSE MembersAfter(s, val.pos, depth,
                                       Put(acc, k.val.v, val.val)) :
                       val \in {ParseValue(s, r + 1, depth)}}) :
            r \in {SkipSpace(s, k.pos)}})

\* The members of an object, from position p, after "{" or after ",".
ParseMembers(s, p, depth, acc) ==
    Only({IF q >= Len(s) THEN DecodeFails("JSONDecodeError")
          ELSE IF s[q + 1] = "}" /\ members = << >>
          THEN Decoded([t |-> "obj", v |-> members], q + 1)
          ELSE IF s[q + 1] # "\"" THEN DecodeFails("JSONDecodeError")
          ELSE Only({IF k.err # "" THEN DecodeFails(k.err)
                     ELSE MemberValue(s, k, depth, members) :
                       k \in {ScanString(s, q + 1)}}) :
            q \in {SkipSpace(s, p)}, members \in {acc}})

\* After an item that ends at position p: "," and the next item, or the
\* closing bracket.
ItemsAfter(s, p, depth, items) ==
    Only({IF e >= Len(s) THEN DecodeFails("JSONDecodeError")
          ELSE IF s[e + 1] = "," THEN ParseItems(s, e + 1, depth, items)
          ELSE IF s[e + 1] = "]"
          THEN Decoded([t |-> "arr", v |-> items], e + 1)
          ELSE DecodeFails("JSONDecodeError") :
            e \in {SkipSpace(s, p)}})

\* The items of an array, from position p, after "[" or after ",".
ParseItems(s, p, depth, acc) ==
    Only({IF q >= Len(s) THEN DecodeFails("JSONDecodeError")
          ELSE IF s[q + 1] = "]" /\ items = << >>
          THEN Decoded([t |-> "arr", v |-> items], q + 1)
          ELSE Only({IF val.err # "" THEN DecodeFails(val.err)
                     ELSE ItemsAfter(s, val.pos, depth, Append(items, val.val)) :
                       val \in {ParseValue(s, q, depth)}}) :
            q \in {SkipSpace(s, p)}, items \in {acc}})

\* One value from position p; depth counts the objects and arrays open.
ParseValue(s, p, depth) ==
    Only({IF q >= Len(s) THEN DecodeFails("JSONDecodeError")
          ELSE IF s[q + 1] \in {"{", "["}
          THEN IF depth + 1 > DecodeDepthLimit THEN DecodeFails("RecursionError")
               ELSE IF s[q + 1] = "{"
               THEN ParseMembers(s, q + 1, depth + 1, << >>)
               ELSE ParseItems(s, q + 1, depth + 1, << >>)
          ELSE IF s[q + 1] = "\"" THEN ScanString(s, q + 1)
          ELSE IF IsDigit(s[q + 1]) THEN ScanNumber(s, q)
          ELSE DecodeFails("JSONDecodeError") :
            q \in {SkipSpace(s, p)}})

\* json.loads(text): one value and nothing but whitespace after it.
Decode(text) ==
    Only({IF val.err # "" THEN DecodeFails(val.err)
          ELSE IF SkipSpace(text, val.pos) # Len(text)
          THEN DecodeFails("JSONDecodeError")
          ELSE val :
            val \in {ParseValue(s, 0, 0) : s \in {text}}})

\* not value
Falsy(val) ==
    \/ val.t \in {"obj", "arr", "str"} /\ val.v = << >>
    \/ val.t = "num" /\ \A i \in 1..Len(val.v) : val.v[i] = "0"

(***************************************************************************)
(* json_repair.py: the strategies of safe_json_parse.  A call returns      *)
(* [status, raised, value]: status "returned" with value None or Some(v),  *)
(* or status "raised" with the exception's class.                          *)
(***************************************************************************)
Returns(value) == [status |-> "returned", raised |-> "", value |-> value]

Raises(kind) == [status |-> "raised", raised |-> kind, value |-> None]

\* '"summary"'
SummaryKey ==
    <<"\"", "s", "u", "m", "m", "a", "r", "y", "\"">>

\* '"summary": "'
SummaryOpening ==
    <<"\"", "s", "u", "m", "m", "a", "r", "y", "\"", ":", " ", "\"">>

\* The text appended after the cut: the closing braces of the platform and
\* of platforms, the three placeholder fields and the closing brace of the
\* root.
SalvageClosure ==
    <<"\n", " ", " ", " ", " ", "}", "\n", " ", " ", "}", ",", "\n", " ",
      " ", "\"", "s", "p", "e", "c", "i", "f", "i", "c", "a", "t", "i",
      "o", "n", "s", "\"", ":", " ", "{", "}", ",", "\n", " ", " ", "\"",
      "s", "u", "m", "m", "a", "r", "i", "z", "e", "d", "_", "r", "e", "v",
      "i", "e", "w", "\"", ":", " ", "{", "\"", "p", "r", "o", "s", "\"",
      ":", " ", "[", "]", ",", " ", "\"", "c", "o", "n", "s", "\"", ":",
      " ", "[", "]", ",", " ", "\"", "v", "e", "r", "d", "i", "c", "t",
      "\"", ":", " ", "\"", "P", "a", "r", "t", "i", "a", "l", " ", "d",
      "a", "t", "a", " ", "-", " ", "p", "r", "o", "c", "e", "s", "s", "i",
      "n", "g", " ", "i", "n", "c", "o", "m", "p", "l", "e", "t", "e",
      "\"", "}", ",", "\n", " ", " ", "\"", "c", "i", "t", "a", "t", "i",
      "o", "n", "s", "\"", ":", " ", "{", "}", "\n", "}">>

\* _repair_truncated_json: None or the repaired text.  The first search
\* starts after the opening quote of the value.
repair_truncated_json(json_str) ==
    Only({IF platforms_end = -1 THEN None
          ELSE Only({IF opened = -1 THEN None
                     ELSE Only({IF summary_end = -1 THEN None
                                ELSE Some(Slice(json_str, 0, summary_end + 1)
                                          \o SalvageClosure) :
                                  summary_end \in
                                      {Find(json_str, <<"\"">>, opened + 1)}}) :
                       opened \in {Find(json_str, <<"\"">>,
                                        platforms_end + Len(SummaryOpening))}}) :
            platforms_end \in {RFind(json_str, SummaryKey)}})

\* re.sub(r'[\x00-\x1F\x7F]', '', json_str)
RemoveControl(s) == SelectSeq(s, LAMBDA c : ~IsControl(c))

\* The comma at position c is followed by optional whitespace and a
\* closing brace or bracket.
TrailingComma(s, c) ==
    /\ s[c + 1] = ","
    /\ \E q \in {SkipSpace(s, c + 1)} : q < Len(s) /\ s[q + 1] \in {"}", "]"}

\* re.sub(r',\s*([}\]])', r'\1', json_str), from position p on.
RECURSIVE RemoveTrailingCommas(_, _)
RemoveTrailingCommas(s, p) ==
    Only({IF hits = {} THEN Slice(s, p, Len(s))
          ELSE Only({Slice(s, p, c) \o RemoveTrailingCommas(s, q) :
                       c \in {First(hits)}, q \in {SkipSpace(s, First(hits) + 1)}}) :
            hits \in {{c \in p..(Len(s) - 1) : TrailingComma(s, c)}}})

\* The default of max_bytes.
DefaultMaxBytes == 300000

\* The text between the first and the last brace, or the salvage of a text
\* with no closing brace.
BracedText(cut) ==
    Only({IF first_brace = -1 THEN None
          ELSE IF last_brace = -1 \/ first_brace >= last_brace
          THEN repair_truncated_json(Slice(cut, first_brace, Len(cut)))
          ELSE Some(Slice(cut, first_brace, last_brace + 1)) :
            first_brace \in {Find(cut, <<"{">>, 0)},
            last_brace \in {RFind(cut, <<"}">>)}})

\* The decode at the end of try_repair_to_json: the except clause catches
\* JSONDecodeError, UnicodeDecodeError and ValueError, and nothing else.
DecodeRepaired(json_str) ==
    Only({IF d.err = "" THEN Returns(Some(d.val))
          ELSE IF d.err \in {"JSONDecodeError", "ValueError"} THEN Returns(None)
          ELSE Raises(d.err) :
            d \in {Decode(s) : s \in {RemoveTrailingCommas(t, 0) :
                                        t \in {RemoveControl(json_str)}}}})

\* try_repair_to_json
try_repair_to_json(text, limit) ==
    IF text = << >> THEN Returns(None)
    ELSE Only({IF json_str = None \/ json_str = Some(<< >>) THEN Returns(None)
               ELSE DecodeRepaired(json_str[1]) :
                 json_str \in {BracedText(cut) :
                                 cut \in {IF Len(text) > limit
                                          THEN Take(text, limit) ELSE text}}})

\* The fence of a code block: three backquotes, each written ~ in the texts
\* of the model.
Fence == <<"~", "~", "~">>

FenceTag == <<"j", "s", "o", "n">>

NoMatch == [start |-> -1, group |-> << >>, next |-> 0]

\* One match of  fence (?:json)? \s* ( \{ .*? \} ) \s* fence  with the tag
\* consumed up to position j: the group and the position after the match.
FencedFrom(text, j) ==
    Only({IF k >= Len(text) \/ text[k + 1] # "{" THEN NoMatch
          ELSE Only({IF ends = {} THEN NoMatch
                     ELSE Only({[start |-> k, group |-> Slice(text, k, e + 1),
                                 next |-> SkipSpace(text, e + 1) + Len(Fence)] :
                                  e \in {First(ends)}}) :
                       ends \in {{e \in (k + 1)..(Len(text) - 1) :
                                    /\ text[e + 1] = "}"
                                    /\ StartsAt(text, Fence,
                                                SkipSpace(text, e + 1))}}}) :
            k \in {SkipSpace(text, j)}})

\* The match of the pattern that starts at position i, if there is one.
FencedAt(text, i) ==
    IF ~StartsAt(text, Fence, i) THEN NoMatch
    ELSE Only({IF tagged.start # -1 THEN tagged
               ELSE FencedFrom(text, i + Len(Fence)) :
                 tagged \in {IF StartsAt(text, FenceTag, i + Len(Fence))
                             THEN FencedFrom(text, i + Len(Fence) + Len(FenceTag))
                             ELSE NoMatch}})

\* re.findall(json_pattern, text, re.DOTALL), from position i on.
RECURSIVE FencedBlocks(_, _)
FencedBlocks(text, i) ==
    Only({IF hit = -1 THEN << >>
          ELSE Only({IF m.start = -1 THEN FencedBlocks(text, hit + 1)
                     ELSE <<m.group>> \o FencedBlocks(text, m.next) :
                       m \in {FencedAt(text, hit)}}) :
            hit \in {Find(text, Fence, i)}})

\* The loop of extract_json_from_markdown over the matches, from the i-th:
\* the first one that decodes is returned; only JSONDecodeError is caught.
RECURSIVE FirstDecodable(_, _)
FirstDecodable(matches, i) ==
    IF i > Len(matches) THEN [found |-> FALSE, call |-> Returns(None)]
    ELSE Only({IF d.err = "" THEN [found |-> TRUE, call |-> Returns(Some(d.val))]
               ELSE IF d.err = "JSONDecodeError"
               THEN FirstDecodable(matches, i + 1)
               ELSE [found |-> TRUE, call |-> Raises(d.err)] :
                 d \in {Decode(matches[i])}})

\* extract_json_from_markdown: the fenced blocks, then try_repair_to_json
\* on the whole text with the default max_bytes.
extract_json_from_markdown(text) ==
    IF text = << >> THEN Returns(None)
    ELSE Only({IF first.found THEN first.call
               ELSE try_repair_to_json(text, DefaultMaxBytes) :
                 first \in {FirstDecodable(matches, 1) :
                              matches \in {FencedBlocks(text, 0)}}})

\* "if result:" on what a strategy returned.
Usable(r) == r.status = "returned" /\ r.value # None /\ ~Falsy(r.value[1])

\* The second and the third strategy of safe_json_parse.
RepairStrategies(text, limit) ==
    Only({IF r2.status = "raised" \/ Usable(r2) THEN r2
          ELSE Only({IF r3.status = "raised" \/ Usable(r3) THEN r3
                     ELSE Returns(None) :
                       r3 \in {try_repair_to_json(text, limit)}}) :
            r2 \in {extract_json_from_markdown(text)}})

\* The generic repair is tried before the direct decode.
safe_json_parse_repair_first(text, limit) ==
    IF text = << >> THEN Returns(None)
    ELSE Only({IF r3.status = "raised" \/ Usable(r3) THEN r3
               ELSE Only({IF d.err = "" THEN Returns(Some(d.val))
                          ELSE Returns(None) :
                            d \in {Decode(text)}}) :
                 r3 \in {try_repair_to_json(text, limit)}})

\* safe_json_parse: direct decode (only JSONDecodeError is caught), fenced
\* block, generic repair.
safe_json_parse(text, limit) ==
    IF text = << >> THEN Returns(None)
    ELSE Only({IF d.err = "" THEN Returns(Some(d.val))
               ELSE IF d.err # "JSONDecodeError" THEN Raises(d.err)
               ELSE RepairStrategies(text, limit) :
                 d \in {Decode(text)}})

(***************************************************************************)
(* Inputs of the safe_json_parse specification                             *)
(***************************************************************************)
\* The texts handed to safe_json_parse, before a lead and a tail are put
\* around them.
TextCores ==
    {\* The empty text
     << >>,
     \* An object
     <<"{", "\"", "a", "\"", ":", " ", "\"", "b", "\"", "}">>,
     \* A nested object
     <<"{", "\"", "a", "\"", ":", " ", "{", "\"", "s", "u", "m", "m", "a",
       "r", "y", "\"", ":", " ", "\"", "g", "\"", "}", ",", " ", "\"", "k",
       "\"", ":", " ", "[", "1", ",", " ", "2", "]", "}">>,
     \* An array
     <<"[", "1", ",", " ", "2", "]">>,
     \* An array that holds an object: [{"a": "b"}]
     <<"[", "{", "\"", "a", "\"", ":", " ", "\"", "b", "\"", "}", "]">>,
     \* The empty object
     <<"{", "}">>,
     \* A trailing comma
     <<"{", "\"", "a", "\"", ":", " ", "\"", "b", "\"", ",", "}">>,
     \* A raw newline inside a string
     <<"{", "\"", "a", "\"", ":", " ", "\"", "b", "\n", "c", "\"", "}">>,
     \* Cut off right after a complete summary field
     <<"{", "\"", "p", "l", "a", "t", "f", "o", "r", "m", "s", "\"", ":",
       " ", "{", "\"", "a", "m", "a", "z", "o", "n", "\"", ":", " ", "{",
       "\"", "p", "r", "i", "c", "e", "\"", ":", " ", "1", ",", " ", "\"",
       "s", "u", "m", "m", "a", "r", "y", "\"", ":", " ", "\"", "g", "o",
       "o", "d", "\"">>,
     \* Cut off after a summary whose value holds an escaped quote
     <<"{", "\"", "p", "l", "a", "t", "f", "o", "r", "m", "s", "\"", ":",
       " ", "{", "\"", "a", "m", "a", "z", "o", "n", "\"", ":", " ", "{",
       "\"", "s", "u", "m", "m", "a", "r", "y", "\"", ":", " ", "\"", "g",
       "o", "\\", "\"", "o", "d", "\"">>,
     \* Cut off in a later field
     <<"{", "\"", "p", "l", "a", "t", "f", "o", "r", "m", "s", "\"", ":",
       " ", "{", "\"", "a", "m", "a", "z", "o", "n", "\"", ":", " ", "{",
       "\"", "s", "u", "m", "m", "a", "r", "y", "\"", ":", " ", "\"", "g",
       "o", "o", "d", "\"", ",", " ", "\"", "x", "\"", ":", " ", "[", "1",
       ",">>,
     \* Cut off after a top-level summary field
     <<"{", "\"", "s", "u", "m", "m", "a", "r", "y", "\"", ":", " ", "\"",
       "s", "\"">>,
     \* Ten open arrays
     <<"[", "[", "[", "[", "[", "[", "[", "[", "[", "[">>,
     \* Ten nested arrays
     <<"{", "\"", "a", "\"", ":", " ", "[", "[", "[", "[", "[", "[", "[",
       "[", "[", "[", "1", "]", "]", "]", "]", "]", "]", "]", "]", "]", "]",
       "}">>,
     \* Prose
     <<"n", "o", " ", "d", "a", "t", "a">>,
     \* A number
     <<"7">>}

\* A core led by nothing, prose, or the opening fence of a tagged code
\* block, and followed by nothing, prose, or a closing fence.
Texts ==
    {l \o c \o t :
        l \in {<< >>, <<"x", " ">>, Fence \o FenceTag \o <<"\n">>},
        c \in TextCores,
        t \in {<< >>, <<" ", "y">>, <<"\n">> \o Fence}}

InitParse ==
    /\ RunIdle
    /\ HelperIdle
    /\ BatchIdle
    /\ offers = EmptyTables.offers
    /\ price_history = EmptyTables.price_history
    /\ ratings = EmptyTables.ratings
    /\ reviews = EmptyTables.reviews
    /\ specs = EmptyTables.specs
    /\ summaries = EmptyTables.summaries
    /\ today = 0
    /\ stores = 0
    /\ call = NoCall
    /\ raw \in Texts
    /\ max_bytes \in {12, 300}
    /\ result = [status |-> "pending", raised |-> "", value |-> None]

\* The call safe_json_parse(raw, max_bytes).
Parse ==
    /\ result.status = "pending"
    /\ result' = safe_json_parse(raw, max_bytes)
    /\ UNCHANGED <<dbvars, storevars, runvars, raw, max_bytes, helper, batch>>

NextParse == Parse

SpecParse == InitParse /\ [][NextParse]_vars


(***************************************************************************)
(* Properties of safe_json_parse                                           *)
(***************************************************************************)
Parsed == result.status # "pending"

\* The text decodes directly.
DecodesDirectly == raw # << >> /\ Decode(raw).err = ""

\* Two decoded values are the same value.
RECURSIVE SameValue(_, _)
SameValue(a, b) ==
    /\ a.t = b.t
    /\ Len(a.v) = Len(b.v)
    /\ \A i \in 1..Len(a.v) :
           CASE a.t = "obj" -> /\ a.v[i][1] = b.v[i][1]
                               /\ SameValue(a.v[i][2], b.v[i][2])
             [] a.t = "arr" -> SameValue(a.v[i], b.v[i])
             [] OTHER -> a.v[i] = b.v[i]

\* The call returned the direct decode of the text.
ReturnedDirectDecode ==
    /\ result.status = "returned"
    /\ result.value # None
    /\ SameValue(result.value[1], Decode(raw).val)

\* C13: a non-empty text that decodes directly is returned as exactly its
\* direct decode, whatever max_bytes is; no later strategy touches it.
C13_DirectDecodeReturned ==
    (Parsed /\ DecodesDirectly) => ReturnedDirectDecode

\* A directly decodable text longer than max_bytes has been parsed.
C13_Witness ==
    /\ Parsed /\ DecodesDirectly
    /\ Len(raw) > max_bytes
    /\ ReturnedDirectDecode

\* C14: safe_json_parse returns a decoded value or None for every input
\* and never raises.
C14_NeverRaises == Parsed => result.status = "returned"

\* '"specifications"', '"summarized_review"', '"citations"' as keys.
RequiredKeys ==
    {<<"s", "p", "e", "c", "i", "f", "i", "c", "a", "t", "i", "o", "n", "s">>,
     <<"s", "u", "m", "m", "a", "r", "i", "z", "e", "d", "_", "r", "e", "v",
       "i", "e", "w">>,
     <<"c", "i", "t", "a", "t", "i", "o", "n", "s">>}

HasKey(val, key) ==
    val.t = "obj" /\ \E i \in 1..Len(val.v) : val.v[i][1] = key

\* The text holds "summary": "..." with the closing quote of the value.
CompleteSummaryField(text) ==
    \E i \in 0..(Len(text) - 1) :
        /\ StartsAt(text, SummaryOpening, i)
        /\ ScanString(text, i + Len(SummaryOpening)).err = ""

\* An opening brace, a complete summary field and no closing brace.
Truncated(text) ==
    /\ Find(text, <<"{">>, 0) # -1
    /\ Find(text, <<"}">>, 0) = -1
    /\ CompleteSummaryField(text)

\* C15: a text with an opening brace, a complete summary field and no
\* closing brace is salvaged to a record that has the keys specifications,
\* summarized_review and citations.
C15_TruncationSalvaged ==
    (Parsed /\ Truncated(raw)) =>
        /\ result.status = "returned"
        /\ result.value # None
        /\ \A key \in RequiredKeys : HasKey(result.value[1], key)

(***************************************************************************)
(* Properties of the merge                                                 *)
(***************************************************************************)
\* The platforms map that segment s contributed to the merge.
SegmentPlatforms(s) == PlatformsOf(ChunkOf(chunk_results, s))

\* The places in the merge order of the segments that hold key k.
Holders(k) ==
    {i \in 1..Len(Segments) : k \in DOMAIN SegmentPlatforms(Segments[i])}

ChunksMerged == variant # "legacy" /\ parsed_data # NoData

\* C16: the merged platforms map holds every key of the retail, editorial
\* and influencer maps, and a key that several segments hold has the value
\* of the last of them in that order; a collision or an empty segment does
\* not keep the merge from returning.
C16_RightBiasedUnion ==
    ChunksMerged =>
        /\ DOMAIN parsed_data.platforms =
              UNION {DOMAIN SegmentPlatforms(s) : s \in SegmentNames}
        /\ \A k \in DOMAIN parsed_data.platforms :
              parsed_data.platforms[k] =
                  SegmentPlatforms(Segments[Last(Holders(k))])[k]

\* The parallel merge has returned with "amazon" in the retail and in the
\* editorial map, with different values, and with an empty influencer map.
C16_Witness ==
    /\ variant = "parallel" /\ ChunksMerged
    /\ Holders("amazon") = {1, 2}
    /\ SegmentPlatforms("retail")["amazon"] # SegmentPlatforms("editorial")["amazon"]
    /\ SegmentPlatforms("influencer") = NoPlatforms
    /\ parsed_data.platforms["amazon"] = SegmentPlatforms("editorial")["amazon"]

(***************************************************************************)
(* Properties of the store step of a run                                   *)
(***************************************************************************)
\* C17: a database connection acquired for the store step is closed by
\* the time the step has returned, on success and on failure, in every
\* variant.
C17_ConnectionReleased == pc = "done" => conn # "open"

(***************************************************************************)
(* Properties of the rows a store leaves                                   *)
(***************************************************************************)
RowsOf(tbl, product_id, retailer) ==
    {r \in tbl : r.product_id = product_id /\ r.retailer = retailer}

\* Rating.average is None or within the range the Rating model accepts.
InRatingRange(average) ==
    average = None \/ (average[1] >= 0 /\ average[1] <= 5)

\* The summaries row that holds the summary of the call and nothing else.
SummaryRowOfCall ==
    [product_id |-> call.product_id,
     pros |-> Some(call.snap.summarized_review.pros),
     cons |-> Some(call.snap.summarized_review.cons),
     verdict |-> call.snap.summarized_review.verdict,
     citations |-> {},
     model_name |-> call.model_name,
     prompt_hash |-> call.prompt_hash]

ProductMissing == cause = "not_found"

\* C19: for a product id that resolves to no stored product the endpoint
\* answers 404 and the run stops there; no model call is made and nothing
\* is written to the store.
C19_MissingProductStops ==
    ProductMissing =>
        /\ http = 404
        /\ pc = "done" /\ ~ENABLED NextIngest
        /\ llm_calls = 0
        /\ tables = EmptyTables
        /\ conn = "none"
        /\ debug = "none"

\* A run of the parallel endpoint on a missing product has ended.
C19_Witness ==
    /\ ProductMissing /\ variant = "parallel"
    /\ http = 404 /\ pc = "done" /\ llm_calls = 0

\* The legacy run ended on a parse or validation error, whose debug
\* artifact save_invalid_output was called to write.
LegacyRejected == variant = "legacy" /\ pc = "done" /\ debug # "none"

\* C20: a debug artifact that cannot be written does not change the
\* outcome of the run: the legacy endpoint answers the parse or validation
\* error, 422 validation_error, whether or not the write succeeded.
C20_DebugWriteFailureHarmless ==
    LegacyRejected => (http = 422 /\ detail = "validation_error")
(***************************************************************************)
(* adaptive_llama.py: the category of a product                            *)
(***************************************************************************)
\* The keys of category_indicators, in the order of the dict.
CategoryOrder == <<"Fragrance", "Makeup", "Skincare", "Tools">>

\* category_indicators: the keywords of each category.
category_indicators ==
    [Fragrance |->
        <<
          <<"p", "e", "r", "f", "u", "m", "e">>,
          <<"e", "a", "u", " ", "d", "e", " ", "p", "a", "r", "f", "u", "m">>,
          <<"e", "a", "u", " ", "d", "e", " ", "t", "o", "i", "l", "e",
            "t", "t", "e">>,
          <<"c", "o", "l", "o", "g", "n", "e">>,
          <<"f", "r", "a", "g", "r", "a", "n", "c", "e">>,
          <<"s", "c", "e", "n", "t">>
        >>,
     Makeup |->
        <<
          <<"f", "o", "u", "n", "d", "a", "t", "i", "o", "n">>,
          <<"l", "i", "p", "s", "t", "i", "c", "k">>,
          <<"m", "a", "s", "c", "a", "r", "a">>,
          <<"e", "y", "e", "s", "h", "a", "d", "o", "w">>,
          <<"b", "l", "u", "s", "h">>,
          <<"c", "o", "n", "c", "e", "a", "l", "e", "r">>,
          <<"p", "o", "w", "d", "e", "r">>,
          <<"m", "a", "k", "e", "u", "p">>,
          <<"c", "o", "s", "m", "e", "t", "i", "c">>
        >>,
     Skincare |->
        <<
          <<"s", "e", "r", "u", "m">>,
          <<"m", "o", "i", "s", "t", "u", "r", "i", "z", "e", "r">>,
          <<"c", "l", "e", "a", "n", "s", "e", "r">>,
          <<"c", "r", "e", "a", "m">>,
          <<"l", "o", "t", "i", "o", "n">>,
          <<"e", "s", "s", "e", "n", "c", "e">>,
          <<"t", "o", "n", "e", "r">>,
          <<"t", "r", "e", "a", "t", "m", "e", "n", "t">>,
          <<"s", "k", "i", "n", "c", "a", "r", "e">>
        >>,
     Tools |->
        <<
          <<"b", "r", "u", "s", "h">>,
          <<"s", "p", "o", "n", "g", "e">>,
          <<"c", "u", "r", "l", "e", "r">>,
          <<"a", "p", "p", "l", "i", "c", "a", "t", "o", "r">>,
          <<"t", "o", "o", "l">>,
          <<"d", "e", "v", "i", "c", "e">>,
          <<"b", "l", "e", "n", "d", "e", "r">>
        >>]

\* str.lower() on one character.
ToLower(c) ==
    LET upper == <<"A", "B", "C", "D", "E", "F", "G", "H", "I", "J", "K", "L",
                   "M", "N", "O", "P", "Q", "R", "S", "T", "U", "V", "W", "X",
                   "Y", "Z">>
        lower == <<"a", "b", "c", "d", "e", "f", "g", "h", "i", "j", "k", "l",
                   "m", "n", "o", "p", "q", "r", "s", "t", "u", "v", "w", "x",
                   "y", "z">>
    IN  IF \E i \in 1..Len(upper) : upper[i] = c
        THEN lower[CHOOSE i \in 1..Len(upper) : upper[i] = c]
        ELSE c

\* scores[category]: the keywords of the category that occur in the text.
KeywordScore(category, product_text) ==
    Cardinality({i \in 1..Len(category_indicators[category]) :
                   Find(product_text, category_indicators[category][i], 0) # -1})

\* max(scores, key=scores.get): the first category, in the order of the
\* dict, whose score is the largest.
FirstWithHighestScore(scores) ==
    CategoryOrder[First({i \in 1..Len(CategoryOrder) :
                           \A j \in 1..Len(CategoryOrder) : scores[j] <= scores[i]})]

\* detect_product_category
detect_product_category(product_name, brand, description) ==
    Only({IF \E i \in 1..Len(CategoryOrder) : scores[i] > 0
          THEN FirstWithHighestScore(scores)
          ELSE "Makeup" :
            scores \in {[i \in 1..Len(CategoryOrder) |->
                           KeywordScore(CategoryOrder[i], product_text)] :
                          product_text \in
                              {[k \in 1..Len(t) |-> ToLower(t[k])] :
                                 t \in {product_name \o <<" ">> \o brand
                                        \o <<" ">> \o description}}}})

(***************************************************************************)
(* db.py: clean_text                                                       *)
(***************************************************************************)
\* The characters of the class [\x00-\x08\x0B\x0C\x0E-\x1F\x7F] that the
\* texts of the model use: the form feed.
RemovedByCleanText(c) == c = "\f"

\* str.strip(): the whitespace at both ends is dropped.
Strip(s) ==
    Only({IF keep = {} THEN << >> ELSE SubSeq(s, First(keep), Last(keep)) :
            keep \in {{i \in 1..Len(s) : s[i] \notin {" ", "\t", "\n", "\r", "\f"}}}})

\* clean_text on an Optional text: None and "" are returned as they are.
clean_text(s) ==
    IF s = None \/ s[1] = << >> THEN s
    ELSE Some(Strip(SelectSeq(s[1], LAMBDA c : ~RemovedByCleanText(c))))

(***************************************************************************)
(* The helper functions called on their own                                *)
(***************************************************************************)
\* The arguments of detect_product_category: a name of two words, a brand
\* and no description, as fetch_product_snapshot_adaptive passes them.
DetectCalls ==
    {<<a \o <<" ">> \o b, brand, << >>>> :
        a, b \in
          {<< >>,
           <<"D", "i", "o", "r">>,
           <<"P", "e", "r", "f", "u", "m", "e">>,
           <<"E", "a", "u", " ", "d", "e", " ", "P", "a", "r", "f", "u", "m">>,
           <<"s", "e", "r", "u", "m">>,
           <<"b", "r", "u", "s", "h">>,
           <<"L", "i", "p", "s", "t", "i", "c", "k">>,
           <<"c", "r", "e", "a", "m">>,
           <<"t", "o", "o", "l">>},
        brand \in {<< >>, <<"S", "c", "e", "n", "t">>}}

MaxTextLen == 3

\* The arguments of clean_text: None and the texts of at most MaxTextLen
\* characters over letters, whitespace and control characters.
CleanCalls ==
    {<<None>>}
    \cup {<<Some(t)>> :
            t \in UNION {[1..n -> {"a", " ", "\n", "\f"}] : n \in 0..MaxTextLen}}
    \cup {<<Some(<<" ", "a", "\r", "\t", "b", "\n", "\r">>)>>}

InitHelpers ==
    /\ RunIdle
    /\ ParseIdle
    /\ BatchIdle
    /\ offers = EmptyTables.offers
    /\ price_history = EmptyTables.price_history
    /\ ratings = EmptyTables.ratings
    /\ reviews = EmptyTables.reviews
    /\ specs = EmptyTables.specs
    /\ summaries = EmptyTables.summaries
    /\ today = 0
    /\ stores = 0
    /\ call = NoCall
    /\ helper \in
         {[fn |-> "detect_product_category", args |-> a, ret |-> << >>] :
            a \in DetectCalls}
         \cup {[fn |-> "clean_text", args |-> a, ret |-> << >>] :
                 a \in CleanCalls}

\* The call detect_product_category(product_name, brand, description).
Detect ==
    /\ helper.fn = "detect_product_category"
    /\ helper.ret = << >>
    /\ helper' = [helper EXCEPT !.ret = <<detect_product_category(
                                            helper.args[1], helper.args[2],
                                            helper.args[3])>>]
    /\ UNCHANGED <<dbvars, storevars, runvars, parsevars, batch>>

\* The call clean_text(s).
Clean ==
    /\ helper.fn = "clean_text"
    /\ helper.ret = << >>
    /\ helper' = [helper EXCEPT !.ret = <<clean_text(helper.args[1])>>]
    /\ UNCHANGED <<dbvars, storevars, runvars, parsevars, batch>>

NextHelpers == Detect \/ Clean

SpecHelpers == InitHelpers /\ [][NextHelpers]_vars

(***************************************************************************)
(* Properties of the helper functions                                      *)
(***************************************************************************)
Detected == helper.fn = "detect_product_category" /\ helper.ret # << >>

\* The text detect_product_category scores.
ScoredText ==
    [k \in 1..Len(helper.args[1] \o <<" ">> \o helper.args[2] \o <<" ">>
                  \o helper.args[3]) |->
        ToLower((helper.args[1] \o <<" ">> \o helper.args[2] \o <<" ">>
                 \o helper.args[3])[k])]

\* The categories whose score is the highest.
TopCategories ==
    {c \in DOMAIN category_indicators :
        \A d \in DOMAIN category_indicators :
            KeywordScore(d, ScoredText) <= KeywordScore(c, ScoredText)}

\* C21: detect_product_category returns one of the four categories, one
\* whose keyword score is the highest, and Makeup whenever two or more
\* categories tie for the highest score.
C21_TieGivesDefault ==
    Detected =>
        /\ helper.ret[1] \in {"Fragrance", "Makeup", "Skincare", "Tools"}
        /\ helper.ret[1] \in TopCategories \/ helper.ret[1] = "Makeup"
        /\ Cardinality(TopCategories) >= 2 => helper.ret[1] = "Makeup"

Cleaned == helper.fn = "clean_text" /\ helper.ret # << >>

\* The characters 0x00-0x1F of the texts of the model.
ControlCharacters == {"\t", "\n", "\r", "\f"}

\* C22: clean_text(None) is None, and for a string clean_text(s) holds no
\* control character anywhere and no whitespace at either end.
C22_NoControlCharacters ==
    Cleaned =>
        IF helper.args[1] = None THEN helper.ret[1] = None
        ELSE /\ helper.ret[1] # None
             /\ \A i \in 1..Len(helper.ret[1][1]) :
                  helper.ret[1][1][i] \notin ControlCharacters
             /\ helper.ret[1][1] # << >> =>
                  /\ Head(helper.ret[1][1]) # " "
                  /\ helper.ret[1][1][Len(helper.ret[1][1])] # " "

(***************************************************************************)
(* Properties of clamp_float and of the averages it writes                 *)
(***************************************************************************)
\* The numbers clamp_float is tried on, and the bounds.
ClampValues == (-2)..7

ClampBounds == {<<0, 5>>, <<0, 1>>, <<2, 2>>, <<-1, 3>>}

\* clamp_float on x with the bounds b: None for None, otherwise a value
\* within the bounds, and x itself when x is within them.
ClampContract(x, b) ==
    /\ clamp_float(None, b[1], b[2]) = None
    /\ clamp_float(Some(x), b[1], b[2]) # None
    /\ clamp_float(Some(x), b[1], b[2])[1] >= b[1]
    /\ clamp_float(Some(x), b[1], b[2])[1] <= b[2]
    /\ (b[1] <= x /\ x <= b[2]) => clamp_float(Some(x), b[1], b[2]) = Some(x)

\* The averages the snapshot of the last call carries, platform by platform.
AveragesOfCall ==
    {<<n, call.snap.platforms[n].rating[1].average>> :
        n \in {m \in DOMAIN call.snap.platforms :
                 /\ call.snap.platforms[m].kind = "PlatformData"
                 /\ call.snap.platforms[m].rating # None}}

\* C23: clamp_float returns None for None and otherwise the value brought
\* within the bounds, unchanged when it is within them already; every
\* average in the ratings table lies in 0..5, and after a successful store
\* the row of each rated platform holds the clamped average of the snapshot.
C23_AveragesClamped ==
    /\ \A x \in ClampValues, b \in ClampBounds : ClampContract(x, b)
    /\ \A r \in ratings : r.average = None \/ InRatingRange(r.average)
    /\ call.ok =>
         \A a \in AveragesOfCall :
            \E r \in ratings :
               /\ r.product_id = call.product_id
               /\ r.retailer = a[1]
               /\ r.average = (IF a[2] = None THEN None
                               ELSE IF a[2][1] > 5 THEN Some(5)
                               ELSE IF a[2][1] < 0 THEN Some(0)
                               ELSE a[2])

\* A store has written the average of a snapshot whose value was above 5.
C23_Witness ==
    /\ call.ok
    /\ \E a \in AveragesOfCall :
          /\ a[2] # None
          /\ a[2][1] > 5
          /\ \E r \in ratings :
                r.product_id = call.product_id /\ r.retailer = a[1]
                /\ r.average = Some(5)

(***************************************************************************)
(* Properties of the repair strategies of safe_json_parse                  *)
(***************************************************************************)
\* A fenced block of the text decodes.
FencedBlockDecodes == FirstDecodable(FencedBlocks(raw, 0), 1).found

\* The call returned a record that is neither the direct decode of the text
\* nor the decode of a fenced block.
ReturnedRepaired ==
    /\ Parsed
    /\ result.status = "returned"
    /\ result.value # None
    /\ ~DecodesDirectly
    /\ ~FencedBlockDecodes

\* What the generic repair makes of the first max_bytes characters.
RepairOfPrefix == try_repair_to_json(Take(raw, max_bytes), max_bytes)

\* C24: a record that safe_json_parse(raw, max_bytes) returns from the
\* generic repair or the salvage is the one made from the first max_bytes
\* characters of the text.
C24_RepairBoundedByMaxBytes ==
    ReturnedRepaired =>
        /\ RepairOfPrefix.status = "returned"
        /\ RepairOfPrefix.value # None
        /\ SameValue(result.value[1], RepairOfPrefix.value[1])

(***************************************************************************)
(* Properties of the corrective rewrite                                    *)
(***************************************************************************)
\* Strict validation failed and the rewrites were applied to the record.
Rewritten == rewrote /\ variant # "legacy" /\ parsed_data # NoData

\* C25: after the corrective rewrite no text field is longer than its
\* maximum (master_summary 300, platform_insights entries 150), so the second
\* validation passes the length checks.
C25_RewriteTruncatesLongTexts ==
    Rewritten => LengthsValid(RewriteOf(variant, parsed_data).review_lengths)

(***************************************************************************)
(* Properties of the parallel aggregate                                    *)
(***************************************************************************)
\* What the three tasks returned, by name.
TaskResults == [s \in SegmentNames |-> fut[s]]

\* The record made of what the three tasks and the synthesis returned, the
\* chunks taken in the order retail, editorial, influencer.
RecordOfOutcomes ==
    [product_identity |->
        IF summary_data.product_identity = "absent" THEN "empty"
        ELSE summary_data.product_identity,
     platforms |->
        Update(Update(PlatformsOf(fut["retail"]), PlatformsOf(fut["editorial"])),
               PlatformsOf(fut["influencer"])),
     summarized_review |-> summary_data.summarized_review,
     review_lengths |-> summary_data.review_lengths,
     extra |-> {}]

\* C26: the record the parallel aggregate returns is the one made of what
\* the three tasks and the synthesis returned, whatever the order in which
\* the tasks completed and were collected.
C26_CompletionOrderIrrelevant ==
    AggregateReturned =>
        /\ parsed_data = RecordOfOutcomes
        /\ chunk_results = TaskResults

\* The aggregate returned after the tasks were collected in the reverse of
\* the order of submission, and the retail and the editorial chunk hold
\* different entries for the same platform.
C26_Witness ==
    /\ AggregateReturned
    /\ collected = <<"influencer", "editorial", "retail">>
    /\ \E k \in (DOMAIN PlatformsOf(fut["retail"]))
                  \cap (DOMAIN PlatformsOf(fut["editorial"])) :
          /\ PlatformsOf(fut["retail"])[k] # PlatformsOf(fut["editorial"])[k]
          /\ parsed_data.platforms[k] = PlatformsOf(fut["editorial"])[k]

(***************************************************************************)
(* Properties of the sequential aggregates                                 *)
(***************************************************************************)
\* A segment fetch of a sequential aggregate raised.
SequentialSegmentFailed ==
    variant \in {"chunked", "adaptive"} /\ FailedSegments # {}

\* C27: in the chunked and the adaptive aggregate a segment whose fetch
\* failed is kept as an empty partial record and the run goes on: it has not
\* ended unless the synthesis call was made.
C27_SequentialFailureAbsorbed ==
    SequentialSegmentFailed =>
        /\ \A s \in FailedSegments :
              s \in DOMAIN chunk_results /\ chunk_results[s] = None
        /\ pc = "done" => SynthesisStarted

(***************************************************************************)
(* The parallel aggregate against the sequential one                       *)
(***************************************************************************)
\* The aggregate returned and neither a segment fetch nor the synthesis
\* call failed.
ReturnedWithoutFailure ==
    /\ variant \in {"chunked", "parallel"}
    /\ parsed_data # NoData
    /\ FailedSegments = {}
    /\ ~synthRaised

\* Step 6 of fetch_product_snapshot_chunked on the outputs of the three
\* segments and of the synthesis.
SequentialRecord ==
    [product_identity |->
        IF summary_data.product_identity = "absent" THEN "empty"
        ELSE summary_data.product_identity,
     platforms |->
        Update(Update(SegmentPlatforms("retail"), SegmentPlatforms("editorial")),
               SegmentPlatforms("influencer")),
     summarized_review |-> summary_data.summarized_review,
     review_lengths |-> summary_data.review_lengths,
     extra |-> {}]

\* C28: when nothing failed, the record of the parallel aggregate is the
\* record the chunked aggregate makes of the same segment and synthesis
\* outputs.
C28_ParallelEqualsSequential ==
    ReturnedWithoutFailure =>
        /\ parsed_data = SequentialRecord
        /\ \A s \in SegmentNames : s \in DOMAIN chunk_results

\* A parallel run returned without a failure, with platforms from more than
\* one segment and an entry that two segments hold.
C28_Witness ==
    /\ ReturnedWithoutFailure
    /\ variant = "parallel"
    /\ collected # Segments
    /\ \E k \in DOMAIN SegmentPlatforms("retail") :
          /\ k \in DOMAIN SegmentPlatforms("editorial")
          /\ parsed_data.platforms[k] = SegmentPlatforms("editorial")[k]
          /\ parsed_data.platforms[k] # SegmentPlatforms("retail")[k]
    /\ DOMAIN SegmentPlatforms("influencer") # {}

(***************************************************************************)
(* Properties of the citations column                                      *)
(***************************************************************************)
\* The summaries rows of the product of the last call.
SummariesOfCall == {s \in summaries : s.product_id = call.product_id}

IngestOne(t, product, crash, o, w, resolution, failAt) ==
    IF crash
    THEN [processed |-> 0, errors |-> <<"Processing failed">>, tables |-> t]
    ELSE IF o.kind = "unparsable"
    THEN [processed |-> 0,
          errors |-> <<"JSON parse failed">>
                     \o (IF save_invalid_output(w).raised
                         THEN <<"Processing failed">> ELSE << >>),
          tables |-> t]
    ELSE IF ~RootSnapshotValid(o.data)
    THEN [processed |-> 0,
          errors |-> <<"Validation failed">>
                     \o (IF save_invalid_output(w).raised
                         THEN <<"Processing failed">> ELSE << >>),
          tables |-> t]
    ELSE Only({[processed |-> IF res.ok THEN 1 ELSE 0,
                errors |-> IF res.ok THEN << >>
                           ELSE <<"Failed to store snapshot">>,
                tables |-> res.tables] :
                  res \in {store_snapshot(t, product, ToSnapshot(o.data, resolution),
                                          "gpt", "h", today, failAt)}})

InitBatch ==
    /\ RunIdle
    /\ ParseIdle
    /\ HelperIdle
    /\ offers = EmptyTables.offers
    /\ price_history = EmptyTables.price_history
    /\ ratings = EmptyTables.ratings
    /\ reviews = EmptyTables.reviews
    /\ specs = EmptyTables.specs
    /\ summaries = EmptyTables.summaries
    /\ today = 0
    /\ stores = 0
    /\ call = NoCall
    /\ batch \in {BatchOver(products) : products \in {<< >>, <<"p1">>, <<"p2">>, <<"p1", "p2">>,
                        <<"p2", "p1">>}}

\* The body of "for product in products" for the next product.
BatchStep ==
    /\ ~batch.returned
    /\ batch.next <= Len(batch.products)
    /\ \E crash \in BOOLEAN, o \in LegacyOutcomes, w \in SaveOutcomes,
          resolution \in UnionResolutions :
          \E failAt \in {None, Some(0), Some(1)} :
             \E turn \in {IngestOne(tables, batch.products[batch.next], crash, o,
                                    w, resolution, failAt)} :
                /\ SetTables(turn.tables)
                /\ batch' = [batch EXCEPT
                                !.next = @ + 1,
                                !.processed = @ + turn.processed,
                                !.errors = @ \o turn.errors]
    /\ UNCHANGED <<storevars, runvars, parsevars, helper>>

\* The loop is over (or there were no products): the response is returned.
BatchReturn ==
    /\ ~batch.returned
    /\ batch.next > Len(batch.products)
    /\ batch' = [batch EXCEPT !.returned = TRUE]
    /\ UNCHANGED <<dbvars, storevars, runvars, parsevars, helper>>

NextBatch == BatchStep \/ BatchReturn

SpecBatch == InitBatch /\ [][NextBatch]_vars

\* C29: when ingest_all_products returns, every product was attempted and
\* is counted exactly once: processed plus the number of errors is the
\* number of products.
C29_EveryProductCountedOnce ==
    batch.returned =>
        /\ batch.next = Len(batch.products) + 1
        /\ batch.processed + Len(batch.errors) = Len(batch.products)

====
